---------------------------- MODULE Spec2Model ----------------------------
(***************************************************************************)
(* Model of the metric-computation core of the space-capital telemetry     *)
(* pipeline:                                                               *)
(*   scripts/generate_telemetry.py    (per-symbol telemetry, portfolio)    *)
(*   scripts/summarize-market-data.py (per-ticker market summaries)        *)
(*                                                                         *)
(* Numbers.  Python floats are modelled as exact rationals <<n, d>> with   *)
(* d > 0, kept in lowest terms.  Two pairs with d = 0 are not numbers:     *)
(*   Absent == <<0, 0>>  a key that is missing from a bar / row dict (or   *)
(*                       whose CSV cell was empty, i.e. None);             *)
(*   Raised == <<1, 0>>  a Python exception (ZeroDivisionError) that       *)
(*                       escaped the function; it propagates through every *)
(*                       arithmetic operator, as an exception would.       *)
(* math.sqrt is computed to the resolution 1/SqrtUnit (floor), and the     *)
(* returns and their mean in compute_volatility are quantised to the same  *)
(* resolution, since their exact variance does not fit 32-bit integers.    *)
(* round(x, k) is modelled as what it does: the nearest multiple of 10^-k  *)
(* (ties to even), held as an integer count of 10^-k units.                *)
(***************************************************************************)
EXTENDS Integers, Sequences, FiniteSets

VARIABLES
    unit,               \* the code under execution: "telemetry", "portfolio", "summary",
                        \* "visual", "process", "function", "signals", "updater"
    bars,               \* generate_telemetry.py: the symbol's bar list
    benchmark_bars,     \* generate_telemetry.py: the benchmark's bar list
    ticker_telemetries, \* generate_portfolio_telemetry: its input list
    rows,               \* summarize-market-data.py: the parsed CSV rows
    call,               \* the function that was called ("" before the call)
    telemetry,          \* what generate_telemetry returned
    metric,             \* what a metric function called on its own returned
    portfolio,          \* what generate_portfolio_telemetry returned
    args,               \* the arguments of a function called on plain values
    visual,             \* data/generate_telemetry.py: what compute_visual_params returned
    raw_files,          \* process_all: the raw JSON files, in sorted order
    written,            \* process_all: the portfolio files and the manifest it wrote
    summary,            \* summarize-market-data.py: what summarize_ticker returned
    updater             \* telemetry_updater.py: the run of main

vars == <<unit, bars, benchmark_bars, ticker_telemetries, rows,
          call, telemetry, metric, portfolio, args, visual, raw_files, written, summary, updater>>

---------------------------------------------------------------------------
(* Rational arithmetic *)

Abs(x) == IF x < 0 THEN -x ELSE x

Min(a, b) == IF a <= b THEN a ELSE b

Max(a, b) == IF a >= b THEN a ELSE b

RECURSIVE GCD(_, _)
GCD(a, b) == IF b = 0 THEN a ELSE GCD(b, a % b)

Absent == <<0, 0>>

Raised == <<1, 0>>

IsNum(x) == x[2] > 0

Rat(n, d) ==
    LET g == GCD(Abs(n), Abs(d))
    IN  IF d < 0 THEN <<(-n) \div g, (-d) \div g>> ELSE <<n \div g, d \div g>>

Num(n) == <<n, 1>>

Zero == <<0, 1>>

One == <<1, 1>>

RAdd(a, b) ==
    IF ~IsNum(a) \/ ~IsNum(b) THEN Raised
    ELSE LET g == GCD(a[2], b[2])
         IN  Rat(a[1] * (b[2] \div g) + b[1] * (a[2] \div g), (a[2] \div g) * b[2])

RNeg(a) == IF ~IsNum(a) THEN Raised ELSE <<-a[1], a[2]>>

RSub(a, b) == RAdd(a, RNeg(b))

RMul(a, b) ==
    IF ~IsNum(a) \/ ~IsNum(b) THEN Raised
    ELSE LET g1 == GCD(Abs(a[1]), b[2])
             g2 == GCD(Abs(b[1]), a[2])
         IN  <<(a[1] \div g1) * (b[1] \div g2), (a[2] \div g2) * (b[2] \div g1)>>

\* Python's float division: a zero divisor raises ZeroDivisionError.
RDiv(a, b) ==
    IF ~IsNum(a) \/ ~IsNum(b) THEN Raised
    ELSE IF b[1] = 0 THEN Raised
    ELSE RMul(a, Rat(b[2], b[1]))

RLt(a, b) ==
    LET g == GCD(a[2], b[2]) IN a[1] * (b[2] \div g) < b[1] * (a[2] \div g)

RLe(a, b) ==
    LET g == GCD(a[2], b[2]) IN a[1] * (b[2] \div g) <= b[1] * (a[2] \div g)

RAbs(a) == IF ~IsNum(a) THEN Raised ELSE <<Abs(a[1]), a[2]>>

RMin(a, b) ==
    IF ~IsNum(a) \/ ~IsNum(b) THEN Raised ELSE IF RLt(b, a) THEN b ELSE a

RMax(a, b) ==
    IF ~IsNum(a) \/ ~IsNum(b) THEN Raised ELSE IF RLt(a, b) THEN b ELSE a

\* Largest k with k * k <= n.
RECURSIVE ISqrtBetween(_, _, _)
ISqrtBetween(n, lo, hi) ==
    IF lo >= hi THEN lo
    ELSE LET mid == (lo + hi + 1) \div 2
         IN  IF mid * mid <= n THEN ISqrtBetween(n, mid, hi)
             ELSE ISqrtBetween(n, lo, mid - 1)

ISqrt(n) == ISqrtBetween(n, 0, Min(n, 46340))

RECURSIVE Pow10(_)
Pow10(k) == IF k = 0 THEN 1 ELSE 10 * Pow10(k - 1)

\* Resolution of math.sqrt in the model: three decimals.
SqrtUnit == Pow10(3)

\* floor(a * m) for a rational a >= 0, without forming a[1] * m when a < 1.
FloorScaled(a, m) ==
    (a[1] \div a[2]) * m + ((a[1] % a[2]) * m) \div a[2]

\* math.sqrt(a) for a >= 0, to the resolution 1 / SqrtUnit.
RSqrt(a) ==
    IF ~IsNum(a) THEN Raised
    ELSE Rat(ISqrt(FloorScaled(a, SqrtUnit * SqrtUnit)), SqrtUnit)

\* Long division: <<floor(n * 10^k / d), (n * 10^k) % d>> from qr = <<n \div d, n % d>>.
RECURSIVE Digits(_, _, _)
Digits(qr, d, k) ==
    IF k = 0 THEN qr
    ELSE Digits(<<qr[1] * 10 + (qr[2] * 10) \div d, (qr[2] * 10) % d>>, d, k - 1)

\* round(a, k) as a count of 10^-k units, ties to even.
Round(a, k) ==
    LET n  == Abs(a[1])
        d  == a[2]
        qr == Digits(<<n \div d, n % d>>, d, k)
        r  == IF 2 * qr[2] > d \/ (2 * qr[2] = d /\ qr[1] % 2 = 1)
              THEN qr[1] + 1 ELSE qr[1]
    IN  IF a[1] < 0 THEN -r ELSE r

---------------------------------------------------------------------------
(* scripts/generate_telemetry.py: utility functions *)

\* dict.get(key, default) on a bar or row.
Get(b, k, default) == IF b[k] = Absent THEN default ELSE b[k]

\* Python truthiness of dict.get(key): None and 0 are false.
Truthy(x) == IsNum(x) /\ x[1] # 0

safe_float(val, default) == IF val = Absent THEN default ELSE val

\* Faulty variant: the clamp is dropped.
normalize_unclamped(val, min_val, max_val, clamp) ==
    IF max_val = min_val THEN Rat(1, 2)
    ELSE RDiv(RSub(val, min_val), RSub(max_val, min_val))

\* Faulty variant: no guard against a zero-width range.
normalize_no_width_guard(val, min_val, max_val, clamp) ==
    LET norm == RDiv(RSub(val, min_val), RSub(max_val, min_val))
    IN  IF clamp THEN RMax(Zero, RMin(One, norm)) ELSE norm

normalize(val, min_val, max_val, clamp) ==
    IF max_val = min_val THEN Rat(1, 2)
    ELSE LET norm == RDiv(RSub(val, min_val), RSub(max_val, min_val))
         IN  IF clamp THEN RMax(Zero, RMin(One, norm)) ELSE norm

\* Faulty variant: no guard against a zero standard deviation.
z_score_unguarded(val, mean, std) == RDiv(RSub(val, mean), std)

\* Faulty variant: a zero standard deviation is taken as 1.
z_score_unit_std(val, mean, std) ==
    IF std = Zero THEN RSub(val, mean) ELSE RDiv(RSub(val, mean), std)

z_score(val, mean, std) ==
    IF std = Zero THEN Zero ELSE RDiv(RSub(val, mean), std)

\* sum(f(x) for x in s), s a sequence of rationals.
RECURSIVE RSum(_, _)
RSum(s, i) == IF i = 0 THEN Zero ELSE RAdd(RSum(s, i - 1), s[i])

RECURSIVE ISum(_, _)
ISum(s, i) == IF i = 0 THEN 0 ELSE ISum(s, i - 1) + s[i]

\* bars[-k:], for 1 <= k <= len(bars).
LastN(s, k) == SubSeq(s, Len(s) - k + 1, Len(s))

---------------------------------------------------------------------------
(* scripts/generate_telemetry.py: metrics *)

VolatilityLookback == 20

DrawdownLookback == 50

TrendLookback == 20

ActivityLookback == 20

RelPerfLookback == 20

DefaultVolatility == Rat(3, 10)

\* A return as a count of 1/SqrtUnit units, nearest.
QuantReturn(curr_close, prev_close) ==
    LET r == RDiv(RSub(curr_close, prev_close), prev_close)
    IN  Round(r, 3)

\* The body of compute_volatility after its minimum-length guard.
ReturnVolatility(bs) ==
         LET last == Min(VolatilityLookback + 1, Len(bs)) - 1
             pairs == [i \in 1..last |->
                         <<Get(bs[Len(bs) - i], "c", Zero),
                           Get(bs[Len(bs) - i + 1], "c", Zero)>>]
             kept == SelectSeq(pairs, LAMBDA p : RLt(Zero, p[1]))
             returns == [i \in 1..Len(kept) |-> QuantReturn(kept[i][2], kept[i][1])]
             n == Len(returns)
             mean_ret == ISum(returns, n) \div n
             sq == [i \in 1..n |-> (returns[i] - mean_ret) * (returns[i] - mean_ret)]
             variance == ISum(sq, n) \div n
         IN  IF n = 0 THEN DefaultVolatility
             ELSE Rat(ISqrt(variance), SqrtUnit)

\* Faulty variant: the guard asks for two bars instead of lookback + 1.
compute_volatility_short_guard(bs) ==
    IF Len(bs) < 2 THEN DefaultVolatility ELSE ReturnVolatility(bs)

compute_volatility(bs) ==
    IF Len(bs) < VolatilityLookback + 1 THEN DefaultVolatility ELSE ReturnVolatility(bs)

\* max(b.get('h', b.get('c', 0)) for b in s)
RECURSIVE MaxHigh(_, _)
MaxHigh(s, i) ==
    LET x == Get(s[i], "h", Get(s[i], "c", Zero))
    IN  IF i = 1 THEN x ELSE RMax(MaxHigh(s, i - 1), x)

compute_drawdown(bs) ==
    IF Len(bs) < 2 THEN Zero
    ELSE LET recent_bars == LastN(bs, Min(DrawdownLookback, Len(bs)))
             high_price == MaxHigh(recent_bars, Len(recent_bars))
             current_price == Get(recent_bars[Len(recent_bars)], "c", Zero)
         IN  IF RLe(high_price, Zero) THEN Zero
             ELSE RDiv(RSub(current_price, high_price), high_price)

\* Faulty variant: the score is divided by the number of possible signals.
compute_trend_fixed_weights(bar, bs) ==
    LET price == Get(bar, "c", Zero)
        MaOn(g) == Truthy(g) /\ RLt(Zero, price)
        MaScore(g) == IF MaOn(g) THEN (IF RLt(g, price) THEN 1 ELSE -1) ELSE 0
        MaWeight(g) == IF MaOn(g) THEN 1 ELSE 0
        hist == Get(bar, "hist", Zero)
        histOn == hist[1] # 0
        old_price == Get(bs[Len(bs) - TrendLookback + 1], "c", price)
        momOn == Len(bs) > TrendLookback /\ RLt(Zero, old_price)
        momentum == RDiv(RSub(price, old_price), old_price)
        momScore == RSub(RMul(normalize(momentum, Rat(-1, 5), Rat(1, 5), TRUE),
                              Num(2)), One)
        score == RAdd(Num(MaScore(bar.g100) + MaScore(bar.g150) + MaScore(bar.g200)
                          + (IF histOn THEN (IF hist[1] > 0 THEN 1 ELSE -1) ELSE 0)),
                      IF momOn THEN momScore ELSE Zero)
        weights == MaWeight(bar.g100) + MaWeight(bar.g150) + MaWeight(bar.g200)
                   + (IF histOn THEN 1 ELSE 0) + (IF momOn THEN 1 ELSE 0)
    IN  IF weights > 0 THEN RDiv(score, Num(5)) ELSE Zero

compute_trend(bar, bs) ==
    LET price == Get(bar, "c", Zero)
        MaOn(g) == Truthy(g) /\ RLt(Zero, price)
        MaScore(g) == IF MaOn(g) THEN (IF RLt(g, price) THEN 1 ELSE -1) ELSE 0
        MaWeight(g) == IF MaOn(g) THEN 1 ELSE 0
        hist == Get(bar, "hist", Zero)
        histOn == hist[1] # 0
        old_price == Get(bs[Len(bs) - TrendLookback + 1], "c", price)
        momOn == Len(bs) > TrendLookback /\ RLt(Zero, old_price)
        momentum == RDiv(RSub(price, old_price), old_price)
        momScore == RSub(RMul(normalize(momentum, Rat(-1, 5), Rat(1, 5), TRUE),
                              Num(2)), One)
        score == RAdd(Num(MaScore(bar.g100) + MaScore(bar.g150) + MaScore(bar.g200)
                          + (IF histOn THEN (IF hist[1] > 0 THEN 1 ELSE -1) ELSE 0)),
                      IF momOn THEN momScore ELSE Zero)
        weights == MaWeight(bar.g100) + MaWeight(bar.g150) + MaWeight(bar.g200)
                   + (IF histOn THEN 1 ELSE 0) + (IF momOn THEN 1 ELSE 0)
    IN  IF weights > 0 THEN RDiv(score, Num(weights)) ELSE Zero

compute_momentum(bar) ==
    LET hist == safe_float(bar.hist, Zero)
        macd == safe_float(bar.macd, Zero)
        hist_norm == RSub(RMul(normalize(hist, Rat(-1, 2), Rat(1, 2), TRUE), Num(2)), One)
        macd_norm == RSub(RMul(normalize(macd, Num(-2), Num(2), TRUE), Num(2)), One)
    IN  RAdd(RMul(hist_norm, Rat(7, 10)), RMul(macd_norm, Rat(3, 10)))

\* Faulty variant: the z-score is taken of the average against the current volume.
compute_activity_inverted(bar, bs) ==
    LET current_vol == safe_float(bar.v, Zero)
        window == LastN(bs, ActivityLookback)
        volumes == [i \in 1..Len(window) |-> safe_float(window[i].v, Zero)]
        n == Len(volumes)
        avg_vol == RDiv(RSum(volumes, n), Num(n))
        sq == [i \in 1..n |-> RMul(RSub(volumes[i], avg_vol), RSub(volumes[i], avg_vol))]
        std_vol == RSqrt(RDiv(RSum(sq, n), Num(n)))
        vol_z == z_score(avg_vol, current_vol, std_vol)
    IN  IF Len(bs) < ActivityLookback THEN Rat(1, 2)
        ELSE IF avg_vol = Zero THEN Rat(1, 2)
        ELSE normalize(vol_z, Num(-2), Num(2), TRUE)

compute_activity(bar, bs) ==
    LET current_vol == safe_float(bar.v, Zero)
        window == LastN(bs, ActivityLookback)
        volumes == [i \in 1..Len(window) |-> safe_float(window[i].v, Zero)]
        n == Len(volumes)
        avg_vol == RDiv(RSum(volumes, n), Num(n))
        sq == [i \in 1..n |-> RMul(RSub(volumes[i], avg_vol), RSub(volumes[i], avg_vol))]
        std_vol == RSqrt(RDiv(RSum(sq, n), Num(n)))
        vol_z == z_score(current_vol, avg_vol, std_vol)
    IN  IF Len(bs) < ActivityLookback THEN Rat(1, 2)
        ELSE IF avg_vol = Zero THEN Rat(1, 2)
        ELSE normalize(vol_z, Num(-2), Num(2), TRUE)

\* Faulty variant: the strong-histogram test is >= 0.1 instead of > 0.1.
compute_signal_state_weak_threshold(bar) ==
    LET hist == safe_float(bar.hist, Zero)
        macd == safe_float(bar.macd, Zero)
        signal == safe_float(bar.signal, Zero)
    IN  IF bar.cross # Absent THEN (IF RLt(hist, Zero) THEN "bear" ELSE "bull")
        ELSE IF RLe(Rat(1, 10), RAbs(hist))
             THEN (IF RLt(Zero, hist) THEN "bull" ELSE "bear")
        ELSE IF RLt(RAdd(signal, Rat(1, 20)), macd) THEN "bull"
        ELSE IF RLt(macd, RSub(signal, Rat(1, 20))) THEN "bear"
        ELSE "neutral"

\* Faulty variant: MACD against the signal line is tested before the histogram.
compute_signal_state_macd_first(bar) ==
    LET hist == safe_float(bar.hist, Zero)
        macd == safe_float(bar.macd, Zero)
        signal == safe_float(bar.signal, Zero)
    IN  IF bar.cross # Absent THEN (IF RLt(hist, Zero) THEN "bear" ELSE "bull")
        ELSE IF RLt(RAdd(signal, Rat(1, 20)), macd) THEN "bull"
        ELSE IF RLt(macd, RSub(signal, Rat(1, 20))) THEN "bear"
        ELSE IF RLt(Rat(1, 10), RAbs(hist))
             THEN (IF RLt(Zero, hist) THEN "bull" ELSE "bear")
        ELSE "neutral"

compute_signal_state(bar) ==
    LET hist == safe_float(bar.hist, Zero)
        cross == bar.cross
        macd == safe_float(bar.macd, Zero)
        signal == safe_float(bar.signal, Zero)
    IN  IF cross # Absent THEN (IF RLt(hist, Zero) THEN "bear" ELSE "bull")
        ELSE IF RLt(Rat(1, 10), RAbs(hist))
             THEN (IF RLt(Zero, hist) THEN "bull" ELSE "bear")
        ELSE IF RLt(RAdd(signal, Rat(1, 20)), macd) THEN "bull"
        ELSE IF RLt(macd, RSub(signal, Rat(1, 20))) THEN "bear"
        ELSE "neutral"

\* (end - start) / start if start > 0 else 0, over the lookback.
LookbackReturn(bs) ==
    LET start == Get(bs[Len(bs) - RelPerfLookback + 1], "c", One)
        end == Get(bs[Len(bs)], "c", One)
    IN  IF RLt(Zero, start) THEN RDiv(RSub(end, start), start) ELSE Zero

\* Faulty variant: the reference range is +-0.2 instead of +-0.3.
compute_relative_performance_narrow(bs, bench) ==
    IF Len(bs) < RelPerfLookback \/ Len(bench) < RelPerfLookback THEN Zero
    ELSE LET rel_perf == RSub(LookbackReturn(bs), LookbackReturn(bench))
         IN  RSub(RMul(normalize(rel_perf, Rat(-1, 5), Rat(1, 5), TRUE), Num(2)), One)

compute_relative_performance(bs, bench) ==
    IF Len(bs) < RelPerfLookback \/ Len(bench) < RelPerfLookback THEN Zero
    ELSE LET rel_perf == RSub(LookbackReturn(bs), LookbackReturn(bench))
         IN  RSub(RMul(normalize(rel_perf, Rat(-3, 10), Rat(3, 10), TRUE), Num(2)), One)

---------------------------------------------------------------------------
(* scripts/generate_telemetry.py: generate_telemetry *)

\* The values of a telemetry dict; numbers are counts of 0.0001 (round(x, 4)).
\* status: "pending" (not called yet), "none" (returned None), "ok" (returned
\* the dict) or "raised" (an exception escaped).
NoTelemetry(status) ==
    [status |-> status, asOf |-> 0, price |-> 0, chgPct |-> 0,
     trend |-> 0, momentum |-> 0, volatility |-> 0, activity |-> 0,
     signalState |-> "", relativePerformance |-> 0,
     risk |-> [drawdown |-> 0, stress |-> 0],
     visual |-> [glow |-> 0, jitter |-> 0, thrust |-> 0, cohesion |-> 0, ring |-> 0]]

\* The returned dict: every value rounded to 4 decimals; an exception raised
\* while computing any of them escapes instead.
TelemetryDict(asOf, price, chg_pct, trend, momentum, volatility, activity, signal_state, rel_perf, dd, stress, glow, jitter, thrust, cohesion, ring) ==
    LET all == <<trend, momentum, volatility, activity, dd, rel_perf, stress,
                 glow, jitter, thrust, cohesion, ring, chg_pct>>
    IN  IF \E i \in 1..Len(all) : ~IsNum(all[i]) THEN NoTelemetry("raised")
        ELSE [status |-> "ok",
              asOf |-> asOf,
              price |-> Round(price, 4),
              chgPct |-> Round(chg_pct, 4),
              trend |-> Round(trend, 4),
              momentum |-> Round(momentum, 4),
              volatility |-> Round(volatility, 4),
              activity |-> Round(activity, 4),
              signalState |-> signal_state,
              relativePerformance |-> Round(rel_perf, 4),
              risk |-> [drawdown |-> Round(dd, 4), stress |-> Round(stress, 4)],
              visual |-> [glow |-> Round(glow, 4), jitter |-> Round(jitter, 4),
                          thrust |-> Round(thrust, 4), cohesion |-> Round(cohesion, 4),
                          ring |-> Round(ring, 4)]]

\* Risk, visual parameters and the day's change, from the core metrics.
DerivedTelemetry(asOf, price, prev_price, trend, momentum, volatility, activity, signal_state, dd, rel_perf) ==
    TelemetryDict(asOf, price,
        IF RLt(Zero, prev_price)
        THEN RMul(RDiv(RSub(price, prev_price), prev_price), Num(100))
        ELSE Zero,
        trend, momentum, volatility, activity, signal_state, rel_perf, dd,
        RMin(One, RAdd(RMul(RAbs(dd), Num(3)), RMul(volatility, Rat(1, 2)))),
        RMin(One, RAdd(RMul(activity, Rat(7, 10)), RMul(RAbs(momentum), Rat(3, 10)))),
        RMin(One, RMul(volatility, Rat(3, 2))),
        RMin(One, RMul(RAbs(momentum), Num(2))),
        RMax(Zero, RSub(RSub(One, volatility), RAbs(dd))),
        RMin(One, RMul(volatility, Rat(4, 5))))

\* The last bar's price, or the default when the bar before it has none.
PrevPrice(bs, price) ==
    IF Len(bs) > 1 THEN safe_float(bs[Len(bs) - 1].c, price) ELSE price

\* The body of generate_telemetry after its empty-list guard.
BuildTelemetry(bs, bench) ==
    DerivedTelemetry(
        Get(bs[Len(bs)], "t", Zero)[1],
        safe_float(bs[Len(bs)].c, Zero),
        PrevPrice(bs, safe_float(bs[Len(bs)].c, Zero)),
        compute_trend(bs[Len(bs)], bs),
        compute_momentum(bs[Len(bs)]),
        compute_volatility(bs),
        compute_activity(bs[Len(bs)], bs),
        compute_signal_state(bs[Len(bs)]),
        compute_drawdown(bs),
        IF Len(bench) > 0 THEN compute_relative_performance(bs, bench) ELSE Zero)

\* Faulty variant: an empty bar list is answered with a record of defaults.
generate_telemetry_defaults(bs, bench) ==
    IF Len(bs) = 0
    THEN [NoTelemetry("ok") EXCEPT !.volatility = 3000, !.activity = 5000,
                                   !.signalState = "neutral"]
    ELSE BuildTelemetry(bs, bench)

generate_telemetry(bs, bench) ==
    IF Len(bs) = 0 THEN NoTelemetry("none") ELSE BuildTelemetry(bs, bench)

---------------------------------------------------------------------------
(* Inputs: bar lists *)

\* Longest bar list drawn.
MaxLen == 25

Lens == {0, 1, 2, 10, ActivityLookback - 1, ActivityLookback,
         VolatilityLookback + 1, MaxLen}

CloseShapes == {"absent", "flat", "rise", "fall", "zero", "zigzag", "crash", "late"}

HighShapes == {"absent", "above", "below"}

\* "even", "nudge", "nudge_down" and "swing" share the average 10 over the last
\* 20 bars; "nudge" and "nudge_down" share the deviation too.
VolumeShapes ==
    {"absent", "flat", "zero", "spike", "dip", "ramp",
     "even", "nudge", "nudge_down", "swing"}

CloseAt(shape, i, len) ==
    CASE shape = "absent" -> Absent
      [] shape = "flat"   -> Num(100)
      [] shape = "rise"   -> IF len = 1 THEN Num(100)
                             ELSE Rat(100 * (len - 1) + 25 * (i - 1), len - 1)
      [] shape = "fall"   -> IF len = 1 THEN Num(125)
                             ELSE Rat(125 * (len - 1) - 25 * (i - 1), len - 1)
      [] shape = "zero"   -> Zero
      [] shape = "zigzag" -> IF i % 2 = 1 THEN Num(100) ELSE Num(110)
      [] shape = "crash"  -> IF i = len THEN Zero ELSE Num(100)
      [] shape = "late"   -> IF i > len - 3 THEN Num(100) ELSE Zero

HighAt(shape, c) ==
    CASE shape = "absent" -> Absent
      [] shape = "above"  -> IF c = Absent THEN Num(10) ELSE RAdd(c, Num(5))
      [] shape = "below"  -> Num(5)

VolumeAt(shape, i, len) ==
    CASE shape = "absent" -> Absent
      [] shape = "flat"   -> Num(1000)
      [] shape = "zero"   -> Zero
      [] shape = "spike"  -> IF i = len THEN Num(20) ELSE Num(10)
      [] shape = "dip"    -> IF i = len THEN Num(5) ELSE Num(10 + (i % 3))
      [] shape = "ramp"   -> Num(i)
      [] shape = "even"   -> Num(10)
      [] shape = "nudge"  -> IF i = len THEN Num(11) ELSE IF i = len - 1 THEN Num(9)
                             ELSE Num(10)
      [] shape = "nudge_down" -> IF i = len THEN Num(9) ELSE IF i = len - 1 THEN Num(11)
                                 ELSE Num(10)
      [] shape = "swing"  -> IF i = len THEN Num(12) ELSE IF i = len - 1 THEN Num(8)
                             ELSE IF i <= len - ActivityLookback THEN Num(10)
                             ELSE IF (len - i) % 2 = 0 THEN Zero ELSE Num(20)

NoIndicators ==
    [hist |-> Absent, macd |-> Absent, signal |-> Absent, cross |-> Absent,
     g100 |-> Absent, g150 |-> Absent, g200 |-> Absent]

BullIndicators ==
    [hist |-> Rat(3, 10), macd |-> One, signal |-> Rat(1, 2), cross |-> Absent,
     g100 |-> Num(90), g150 |-> Num(80), g200 |-> Num(70)]

HistValues ==
    {Absent, Zero, Rat(1, 20), Rat(1, 10), Rat(3, 10), One, Rat(-1, 20), Rat(-3, 10)}

MacdValues == {Absent, Rat(1, 10), Rat(-1, 10), Num(3), Num(-3)}

SignalValues == {Absent, Zero, Rat(1, 20)}

CrossValues == {Absent, One}

\* g100, g150, g200: none, all below the price, all above, mixed, zero.
MovingAverages ==
    {<<Absent, Absent, Absent>>, <<Num(90), Num(80), Num(70)>>,
     <<Num(200), Num(210), Num(220)>>, <<Num(90), Num(200), Absent>>,
     <<Zero, Zero, Zero>>}

IndicatorSets ==
    {[hist |-> h, macd |-> m, signal |-> s, cross |-> x,
      g100 |-> g[1], g150 |-> g[2], g200 |-> g[3]] :
        h \in HistValues, m \in MacdValues, s \in SignalValues,
        x \in CrossValues, g \in MovingAverages}

BuildBars(len, cs, hs, vs, ind) ==
    [i \in 1..len |->
        [t |-> Num(i),
         c |-> CloseAt(cs, i, len),
         h |-> HighAt(hs, CloseAt(cs, i, len)),
         v |-> VolumeAt(vs, i, len),
         hist |-> ind.hist, macd |-> ind.macd, signal |-> ind.signal,
         cross |-> ind.cross,
         g100 |-> ind.g100, g150 |-> ind.g150, g200 |-> ind.g200]]

PlainBars(len, cs) == BuildBars(len, cs, "absent", "flat", NoIndicators)

Benchmarks ==
    {<<>>, PlainBars(5, "flat"), PlainBars(MaxLen, "flat"),
     PlainBars(MaxLen, "rise"), PlainBars(MaxLen, "absent")}

\* Price-shaped inputs, indicator-shaped inputs, volume-shaped inputs.
TelemetryInputs ==
    {<<BuildBars(len, cs, hs, vs, ind), bench>> :
        len \in Lens, cs \in CloseShapes, hs \in HighShapes,
        vs \in {"absent", "flat"}, ind \in {NoIndicators, BullIndicators},
        bench \in Benchmarks}
    \cup
    {<<BuildBars(len, cs, "absent", "flat", ind), <<>> >> :
        len \in {2, MaxLen}, cs \in {"flat", "rise"}, ind \in IndicatorSets}
    \cup
    {<<BuildBars(len, "flat", "absent", vs, NoIndicators), <<>> >> :
        len \in Lens, vs \in VolumeShapes}

\* The values of a portfolio dict, with status as for a telemetry dict.
NoPortfolio(status) ==
    [status |-> status, asOf |-> 0, healthScore |-> 0, volatility |-> 0,
     drawdown |-> 0, sentiment |-> 0, dayChange |-> 0,
     summary |-> [avgMomentum |-> 0, avgVolatility |-> 0, avgStress |-> 0,
                  tickerCount |-> 0]]

\* Timeframe folders (the values of TIMEFRAME_MAP; raw data is keyed alike).
Timeframes == {"1D", "45m", "15m"}

\* What process_all has written before it runs: no portfolio file, no manifest.
NothingWritten ==
    [portfolio |-> [tf \in Timeframes |-> NoPortfolio("pending")],
     symbols |-> <<>>]

\* The values of a visual-parameters dict (data variant), before the call.
\* summarize_ticker has not returned.
NoSummary == [status |-> "pending"]

\* main has not run.
NoRun ==
    [status |-> "none", argv |-> [commit |-> FALSE, push |-> FALSE],
     commit |-> FALSE, push |-> FALSE, csvs |-> <<>>, pos |-> 0,
     written |-> <<>>, commands |-> <<>>]

NoVisual == [glow |-> Absent, jitter |-> Absent, thrust |-> Absent, damage |-> Absent]

InitTelemetry ==
    /\ unit = "telemetry"
    /\ \E input \in TelemetryInputs : bars = input[1] /\ benchmark_bars = input[2]
    /\ ticker_telemetries = <<>>
    /\ rows = <<>>
    /\ call = ""
    /\ telemetry = NoTelemetry("pending")
    /\ metric = Absent
    /\ portfolio = NoPortfolio("pending")
    /\ args = <<>>
    /\ visual = NoVisual
    /\ raw_files = <<>>
    /\ written = NothingWritten
    /\ summary = NoSummary
    /\ updater = NoRun

GenerateTelemetry ==
    /\ unit = "telemetry" /\ call = ""
    /\ call' = "generate_telemetry"
    /\ telemetry' = generate_telemetry(bars, benchmark_bars)
    /\ UNCHANGED <<summary, updater, raw_files, written, args, visual, unit, bars, benchmark_bars, ticker_telemetries, rows, metric, portfolio>>

ComputeDrawdown ==
    /\ unit = "telemetry" /\ call = ""
    /\ call' = "compute_drawdown"
    /\ metric' = compute_drawdown(bars)
    /\ UNCHANGED <<summary, updater, raw_files, written, args, visual, unit, bars, benchmark_bars, ticker_telemetries, rows, telemetry, portfolio>>

ComputeRelativePerformance ==
    /\ unit = "telemetry" /\ call = ""
    /\ call' = "compute_relative_performance"
    /\ metric' = compute_relative_performance(bars, benchmark_bars)
    /\ UNCHANGED <<summary, updater, raw_files, written, args, visual, unit, bars, benchmark_bars, ticker_telemetries, rows, telemetry, portfolio>>

\* compute_activity(bars[-1], bars), as generate_telemetry calls it.
ComputeActivity ==
    /\ unit = "telemetry" /\ call = ""
    /\ Len(bars) > 0
    /\ call' = "compute_activity"
    /\ metric' = compute_activity(bars[Len(bars)], bars)
    /\ UNCHANGED <<summary, updater, raw_files, written, args, visual, unit, bars, benchmark_bars, ticker_telemetries, rows, telemetry, portfolio>>

\* compute_trend(bars[-1], bars), as generate_telemetry calls it.
ComputeTrend ==
    /\ unit = "telemetry" /\ call = ""
    /\ Len(bars) > 0
    /\ call' = "compute_trend"
    /\ metric' = compute_trend(bars[Len(bars)], bars)
    /\ UNCHANGED <<summary, updater, raw_files, written, args, visual, unit, bars, benchmark_bars, ticker_telemetries, rows, telemetry, portfolio>>

---------------------------------------------------------------------------
(* Claims about generate_telemetry and its metrics.                        *)
(* Telemetry numbers are counts of 0.0001: 1 is 10000, 0.5 is 5000.        *)

Returned == call = "generate_telemetry"

LastBar == bars[Len(bars)]

AllBars(P(_)) == \A i \in 1..Len(bars) : P(bars[i])

\* C1: for every non-empty bar list and every benchmark list, with fields
\* missing, zero or degenerate, generate_telemetry returns a record whose trend,
\* momentum and relativePerformance lie in [-1, 1] and whose activity and
\* risk.stress lie in [0, 1].
C1_BoundedOutputs ==
    (Returned /\ Len(bars) > 0) =>
        /\ telemetry.status = "ok"
        /\ telemetry.trend \in -10000..10000
        /\ telemetry.momentum \in -10000..10000
        /\ telemetry.activity \in 0..10000
        /\ telemetry.relativePerformance \in -10000..10000
        /\ telemetry.risk.stress \in 0..10000

\* C1 witness: a list of more than lookback bars whose last close is zero and
\* whose moving averages are present; the stress reaches its upper bound.
C1_Witness ==
    /\ Returned /\ telemetry.status = "ok"
    /\ Len(bars) > VolatilityLookback
    /\ LastBar.c = Zero /\ LastBar.g100 # Absent
    /\ Len(benchmark_bars) > 0
    /\ telemetry.risk.stress = 10000

\* C2 (as claimed): compute_drawdown returns (currentClose - trailingHigh) /
\* trailingHigh, a value <= 0 and >= -1, for every bar list with close >= 0,
\* whatever high and close values the bars carry.
C2_DrawdownRange ==
    call = "compute_drawdown" =>
        /\ IsNum(metric)
        /\ RLe(metric, Zero)
        /\ RLe(Num(-1), metric)

OnlyCloseAndVolume(b) ==
    /\ b.hist = Absent /\ b.macd = Absent /\ b.signal = Absent /\ b.cross = Absent
    /\ b.g100 = Absent /\ b.g150 = Absent /\ b.g200 = Absent

ConstantScenario ==
    /\ Len(bars) = 25
    /\ AllBars(LAMBDA b : b.c = Num(100) /\ b.v = Num(1000) /\ OnlyCloseAndVolume(b))

\* C5: 25 bars, each with close 100 and volume 1000 and no indicator field,
\* give volatility 0, momentum 0, trend 0, activity 0.5 and signalState neutral.
C5_ConstantSeries ==
    (Returned /\ ConstantScenario) =>
        /\ telemetry.status = "ok"
        /\ telemetry.volatility = 0
        /\ telemetry.momentum = 0
        /\ telemetry.trend = 0
        /\ telemetry.activity = 5000
        /\ telemetry.signalState = "neutral"

C5_Witness == Returned /\ ConstantScenario /\ telemetry.status = "ok"

RisingScenario ==
    /\ Len(bars) = 25
    /\ \A i \in 1..Len(bars) :
          /\ bars[i].c = Rat(100 * 24 + 25 * (i - 1), 24)
          /\ IsNum(bars[i].hist) /\ bars[i].hist[1] > 0

NoOtherIndicators(b) ==
    /\ b.macd = Absent /\ b.signal = Absent /\ b.cross = Absent
    /\ b.g100 = Absent /\ b.g150 = Absent /\ b.g200 = Absent

C7_SignalRules ==
    (Returned /\ telemetry.status = "ok") =>
        LET hist == safe_float(LastBar.hist, Zero)
            macd == safe_float(LastBar.macd, Zero)
            signal == safe_float(LastBar.signal, Zero)
            crossed == LastBar.cross # Absent
            strong == RLt(Rat(1, 10), RAbs(hist))
            state == telemetry.signalState
        IN  /\ state \in {"bull", "bear", "neutral"}
            /\ (crossed /\ hist[1] < 0) => state = "bear"
            /\ (crossed /\ hist[1] > 0) => state = "bull"
            /\ (crossed /\ hist[1] = 0) => state # "neutral"
            /\ (~crossed /\ strong /\ hist[1] > 0) => state = "bull"
            /\ (~crossed /\ strong /\ hist[1] < 0) => state = "bear"
            /\ (~crossed /\ ~strong /\ RLt(RAdd(signal, Rat(1, 20)), macd))
                  => state = "bull"
            /\ (~crossed /\ ~strong /\ RLt(macd, RSub(signal, Rat(1, 20))))
                  => state = "bear"
            /\ (~crossed /\ ~strong /\ RLe(macd, RAdd(signal, Rat(1, 20)))
                  /\ RLe(RSub(signal, Rat(1, 20)), macd)) => state = "neutral"

\* C7 witness: no crossover, a strong positive histogram and a MACD far below
\* the signal line: rule (2) wins over rule (3).
C7_Witness ==
    /\ Returned /\ telemetry.status = "ok"
    /\ LastBar.cross = Absent
    /\ LastBar.hist = Rat(3, 10)
    /\ LastBar.macd = Num(-3) /\ LastBar.signal = Zero
    /\ telemetry.signalState = "bull"

\* C8: a bar list shorter than a metric's minimum window gets that metric's
\* default and generate_telemetry completes: below lookback + 1 bars volatility
\* is 0.3, below lookback bars activity is 0.5 and relativePerformance is 0,
\* below 2 bars drawdown is 0.
C8_ShortSeriesDefaults ==
    (Returned /\ Len(bars) >= 1) =>
        /\ Len(bars) <= VolatilityLookback => telemetry.status = "ok"
        /\ Len(bars) < VolatilityLookback + 1 => telemetry.volatility = 3000
        /\ Len(bars) < ActivityLookback => telemetry.activity = 5000
        /\ Len(bars) < RelPerfLookback => telemetry.relativePerformance = 0
        /\ Len(bars) < 2 => telemetry.risk.drawdown = 0

\* C8 witness: 19 bars with moving closes and a full-length benchmark.
C8_Witness ==
    /\ Returned /\ telemetry.status = "ok"
    /\ Len(bars) = ActivityLookback - 1
    /\ Len(benchmark_bars) >= RelPerfLookback
    /\ bars[1].c # bars[2].c /\ IsNum(bars[1].c) /\ bars[1].c[1] > 0
    /\ telemetry.volatility = 3000

\* C10 (as claimed): with at least 21 bars, a field absent from all of them
\* gives each dependent metric its neutral default and nothing is raised: no
\* close gives volatility 0.3, drawdown 0 and relativePerformance 0; no volume
\* gives activity 0.5; no hist and macd give momentum 0; no moving average,
\* hist and close give trend 0.
C10_MissingColumnDefaults ==
    (Returned /\ Len(bars) >= VolatilityLookback + 1) =>
        /\ telemetry.status = "ok"
        /\ AllBars(LAMBDA b : b.c = Absent) =>
              /\ telemetry.volatility = 3000
              /\ telemetry.risk.drawdown = 0
              /\ telemetry.relativePerformance = 0
        /\ AllBars(LAMBDA b : b.v = Absent) => telemetry.activity = 5000
        /\ AllBars(LAMBDA b : b.hist = Absent /\ b.macd = Absent)
              => telemetry.momentum = 0
        /\ AllBars(LAMBDA b : b.g100 = Absent /\ b.g150 = Absent /\ b.g200 = Absent
                              /\ b.hist = Absent /\ b.c = Absent)
              => telemetry.trend = 0

---------------------------------------------------------------------------
(* scripts/generate_telemetry.py: generate_portfolio_telemetry *)

\* A number read back from a telemetry dict.
Val(x) == Rat(x, 10000)

\* The entries the loop does not skip (t is None: continue).
Present(tts) == SelectSeq(tts, LAMBDA t : t.status # "none")

\* Faulty variant: a negative momentum lowers the health instead of adding nothing.
PortfolioSummary_signed_momentum(tts) ==
    LET present == Present(tts)
        count == Len(present)
        health == [i \in 1..count |->
                     RAdd(RMul(RMax(Zero, RSub(One, Val(present[i].risk.stress))),
                               Rat(7, 10)),
                          RMul(Val(present[i].momentum), Rat(3, 10)))]
        total_health == RSum(health, count)
        total_momentum == RSum([i \in 1..count |-> Val(present[i].momentum)], count)
        total_volatility == RSum([i \in 1..count |-> Val(present[i].volatility)], count)
        total_stress == RSum([i \in 1..count |-> Val(present[i].risk.stress)], count)
        avg_health == RDiv(total_health, Num(count))
        avg_momentum == RDiv(total_momentum, Num(count))
        avg_volatility == RDiv(total_volatility, Num(count))
        avg_stress == RDiv(total_stress, Num(count))
        sentiment == normalize(avg_momentum, Rat(-1, 2), Rat(1, 2), TRUE)
        all == <<avg_health, avg_momentum, avg_volatility, avg_stress, sentiment>>
    IN  IF \E i \in 1..Len(all) : ~IsNum(all[i]) THEN NoPortfolio("raised")
        \* ticker_telemetries[0]['asOf'] subscripts None when the first entry is None
        ELSE IF tts[1].status = "none" THEN NoPortfolio("raised")
        ELSE [status |-> "ok",
              asOf |-> tts[1].asOf,
              healthScore |-> Round(avg_health, 4),
              volatility |-> Round(avg_volatility, 4),
              drawdown |-> Round(RMul(avg_stress, Rat(-3, 10)), 4),
              sentiment |-> Round(sentiment, 4),
              dayChange |-> Round(RMul(avg_momentum, Rat(1, 10)), 4),
              summary |-> [avgMomentum |-> Round(avg_momentum, 4),
                           avgVolatility |-> Round(avg_volatility, 4),
                           avgStress |-> Round(avg_stress, 4),
                           tickerCount |-> count]]

\* Faulty variant: the stress is averaged over every entry, None included.
PortfolioSummary_all_entries(tts) ==
    LET present == Present(tts)
        count == Len(present)
        health == [i \in 1..count |->
                     RAdd(RMul(RMax(Zero, RSub(One, Val(present[i].risk.stress))),
                               Rat(7, 10)),
                          RMul(RMax(Zero, Val(present[i].momentum)), Rat(3, 10)))]
        total_health == RSum(health, count)
        total_momentum == RSum([i \in 1..count |-> Val(present[i].momentum)], count)
        total_volatility == RSum([i \in 1..count |-> Val(present[i].volatility)], count)
        total_stress == RSum([i \in 1..count |-> Val(present[i].risk.stress)], count)
        avg_health == RDiv(total_health, Num(count))
        avg_momentum == RDiv(total_momentum, Num(count))
        avg_volatility == RDiv(total_volatility, Num(count))
        avg_stress == RDiv(total_stress, Num(Len(tts)))
        sentiment == normalize(avg_momentum, Rat(-1, 2), Rat(1, 2), TRUE)
        all == <<avg_health, avg_momentum, avg_volatility, avg_stress, sentiment>>
    IN  IF \E i \in 1..Len(all) : ~IsNum(all[i]) THEN NoPortfolio("raised")
        \* ticker_telemetries[0]['asOf'] subscripts None when the first entry is None
        ELSE IF tts[1].status = "none" THEN NoPortfolio("raised")
        ELSE [status |-> "ok",
              asOf |-> tts[1].asOf,
              healthScore |-> Round(avg_health, 4),
              volatility |-> Round(avg_volatility, 4),
              drawdown |-> Round(RMul(avg_stress, Rat(-3, 10)), 4),
              sentiment |-> Round(sentiment, 4),
              dayChange |-> Round(RMul(avg_momentum, Rat(1, 10)), 4),
              summary |-> [avgMomentum |-> Round(avg_momentum, 4),
                           avgVolatility |-> Round(avg_volatility, 4),
                           avgStress |-> Round(avg_stress, 4),
                           tickerCount |-> count]]

\* The body of generate_portfolio_telemetry from its averages on.
PortfolioSummary(tts) ==
    LET present == Present(tts)
        count == Len(present)
        health == [i \in 1..count |->
                     RAdd(RMul(RMax(Zero, RSub(One, Val(present[i].risk.stress))),
                               Rat(7, 10)),
                          RMul(RMax(Zero, Val(present[i].momentum)), Rat(3, 10)))]
        total_health == RSum(health, count)
        total_momentum == RSum([i \in 1..count |-> Val(present[i].momentum)], count)
        total_volatility == RSum([i \in 1..count |-> Val(present[i].volatility)], count)
        total_stress == RSum([i \in 1..count |-> Val(present[i].risk.stress)], count)
        avg_health == RDiv(total_health, Num(count))
        avg_momentum == RDiv(total_momentum, Num(count))
        avg_volatility == RDiv(total_volatility, Num(count))
        avg_stress == RDiv(total_stress, Num(count))
        sentiment == normalize(avg_momentum, Rat(-1, 2), Rat(1, 2), TRUE)
        all == <<avg_health, avg_momentum, avg_volatility, avg_stress, sentiment>>
    IN  IF \E i \in 1..Len(all) : ~IsNum(all[i]) THEN NoPortfolio("raised")
        \* ticker_telemetries[0]['asOf'] subscripts None when the first entry is None
        ELSE IF tts[1].status = "none" THEN NoPortfolio("raised")
        ELSE [status |-> "ok",
              asOf |-> tts[1].asOf,
              healthScore |-> Round(avg_health, 4),
              volatility |-> Round(avg_volatility, 4),
              drawdown |-> Round(RMul(avg_stress, Rat(-3, 10)), 4),
              sentiment |-> Round(sentiment, 4),
              dayChange |-> Round(RMul(avg_momentum, Rat(1, 10)), 4),
              summary |-> [avgMomentum |-> Round(avg_momentum, 4),
                           avgVolatility |-> Round(avg_volatility, 4),
                           avgStress |-> Round(avg_stress, 4),
                           tickerCount |-> count]]

\* Faulty variant: the count == 0 guard is missing.
generate_portfolio_telemetry_no_count_guard(tts) ==
    IF Len(tts) = 0 THEN NoPortfolio("none") ELSE PortfolioSummary(tts)

generate_portfolio_telemetry(tts) ==
    IF Len(tts) = 0 THEN NoPortfolio("none")
    ELSE IF Len(Present(tts)) = 0 THEN NoPortfolio("none")
    ELSE PortfolioSummary(tts)

---------------------------------------------------------------------------
(* Inputs: lists of telemetry dicts *)

\* Longest list of telemetries drawn.
MaxTickers == 3

Ticker(asOf, momentum, volatility, stress) ==
    [NoTelemetry("ok") EXCEPT !.asOf = asOf, !.momentum = momentum,
                              !.volatility = volatility, !.risk.stress = stress]

TickerSamples ==
    {NoTelemetry("none"),
     Ticker(1, 0, 3000, 1500), Ticker(2, 10000, 0, 0),
     Ticker(3, -10000, 12000, 10000), Ticker(4, 2500, 100, 3300),
     Ticker(5, -2500, 4568, 7000), Ticker(6, 5000, 3000, 5000),
     Ticker(7, 3334, 16, 1234)}

InitPortfolio ==
    /\ unit = "portfolio"
    /\ \E n \in 0..MaxTickers : ticker_telemetries \in [1..n -> TickerSamples]
    /\ bars = <<>> /\ benchmark_bars = <<>>
    /\ rows = <<>>
    /\ call = ""
    /\ telemetry = NoTelemetry("pending")
    /\ metric = Absent
    /\ portfolio = NoPortfolio("pending")
    /\ args = <<>>
    /\ visual = NoVisual
    /\ raw_files = <<>>
    /\ written = NothingWritten
    /\ summary = NoSummary
    /\ updater = NoRun

GeneratePortfolioTelemetry ==
    /\ unit = "portfolio" /\ call = ""
    /\ call' = "generate_portfolio_telemetry"
    /\ portfolio' = generate_portfolio_telemetry(ticker_telemetries)
    /\ UNCHANGED <<summary, updater, raw_files, written, args, visual, unit, bars, benchmark_bars, ticker_telemetries, rows, telemetry, metric>>

\* C4: generate_portfolio_telemetry over zero telemetries (an empty list, or a
\* list of None entries only) returns None and does not divide by the count.
C4_EmptyPortfolioIsNone ==
    (call = "generate_portfolio_telemetry"
        /\ \A i \in 1..Len(ticker_telemetries) : ticker_telemetries[i].status = "none")
    => portfolio = NoPortfolio("none")

\* C4 witness: a list of two or more entries, all None.
C4_Witness ==
    /\ call = "generate_portfolio_telemetry"
    /\ Len(ticker_telemetries) >= 2
    /\ \A i \in 1..Len(ticker_telemetries) : ticker_telemetries[i].status = "none"
    /\ portfolio.status = "none"

---------------------------------------------------------------------------
(* scripts/summarize-market-data.py: metrics over parsed CSV rows.         *)
(* A row's value is Absent where parse_csv stored None (an empty cell) or  *)
(* where the column is missing (row.get returns None).                     *)

MinRows == 10

RMean(s) == RDiv(RSum(s, Len(s)), Num(Len(s)))

\* The rows the loop counts: both the kernel estimate and the close present.
KernelRows(rs) ==
    SelectSeq(rs, LAMBDA r : ~(r.kernel = Absent \/ r.close = Absent))

\* abs(close - kernel) / kernel < 0.02
KernelRespected(r) ==
    RLt(RDiv(RAbs(RSub(r.close, r.kernel)), r.kernel), Rat(2, 100))

compute_kernel_respect(rs) ==
    IF Len(rs) < MinRows THEN Rat(1, 2)
    ELSE LET counted == KernelRows(rs)
             total == Len(counted)
             respect_count == Len(SelectSeq(counted, KernelRespected))
         IN  IF \E i \in 1..total : counted[i].kernel = Zero THEN Raised
             ELSE IF total > 0 THEN Rat(respect_count, total)
             ELSE Rat(1, 2)

\* round(x, 3), kept as a rational.
Round3(x) == IF ~IsNum(x) THEN Raised ELSE Rat(Round(x, 3), 1000)

compute_band_compression(rs) ==
    IF Len(rs) < MinRows THEN Rat(1, 2)
    ELSE LET banded == SelectSeq(rs, LAMBDA r : r.A5 # Absent /\ r.E5 # Absent
                                                /\ r.close # Absent /\ r.close # Zero)
             compressions == [i \in 1..Len(banded) |->
                                RDiv(RAbs(RSub(banded[i].A5, banded[i].E5)),
                                     banded[i].close)]
             avg_compression == RMean(compressions)
             score == RSub(One, RMin(One, RDiv(avg_compression, Rat(1, 4))))
         IN  IF Len(banded) = 0 THEN Rat(1, 2) ELSE Round3(score)

\* statistics.stdev(data, xbar): the sample standard deviation about the mean m.
SampleStdev(s, m) ==
    LET sq == [i \in 1..Len(s) |-> RMul(RSub(s[i], m), RSub(s[i], m))]
    IN  RSqrt(RDiv(RSum(sq, Len(s)), Num(Len(s) - 1)))

compute_volume_reliability(rs) ==
    IF Len(rs) < MinRows THEN Rat(1, 2)
    ELSE LET withVolume == SelectSeq(rs, LAMBDA r : r.Volume # Absent /\ RLt(Zero, r.Volume))
             volumes == [i \in 1..Len(withVolume) |-> withVolume[i].Volume]
             avg_vol == RMean(volumes)
             vol_std == IF Len(volumes) > 1 THEN SampleStdev(volumes, avg_vol) ELSE Zero
             cv == IF RLt(Zero, avg_vol) THEN RDiv(vol_std, avg_vol) ELSE One
             reliability == RSub(One, RMin(One, RDiv(cv, Rat(3, 2))))
         IN  IF Len(volumes) < MinRows THEN Rat(1, 2) ELSE Round3(reliability)

compute_volatility_factor(rs) ==
    IF Len(rs) < MinRows THEN Rat(1, 2)
    ELSE LET priced == SelectSeq(rs, LAMBDA r : r.close # Absent /\ r.close # Zero)
             returns == [i \in 1..(Len(priced) - 1) |->
                           RAbs(RDiv(RSub(priced[i + 1].close, priced[i].close),
                                     priced[i].close))]
             avg_return == RMean(returns)
         IN  IF Len(priced) - 1 < 5 THEN Rat(1, 2)
             ELSE Round3(RMin(One, RDiv(avg_return, Rat(15, 1000))))

\* rows[:-5] leaves out the last FollowTail rows; rows[i+1:i+6] looks
\* FollowHorizon rows ahead; fewer than SignalRows rows give the default.
SignalRows == 20

FollowTail == 5

FollowHorizon == 5

\* [r.get('close') for r in rows[i+1:i+6] if r.get('close') is not None],
\* i counted from 1.
FutureCloses(rs, i) ==
    {rs[j].close : j \in {k \in (i + 1)..Min(i + FollowHorizon, Len(rs)) :
                            rs[k].close # Absent}}

\* The two counters of compute_signal_follow_through when its loop ends.
FollowCounts(rs) ==
    LET evaluated == {i \in 1..(Len(rs) - FollowTail) :
                        rs[i].close # Absent /\ FutureCloses(rs, i) # {}}
        buys == {i \in evaluated : rs[i].Buy = One}
        sells == {i \in evaluated : rs[i].Sell = One}
        future_max(i) == CHOOSE m \in FutureCloses(rs, i) :
                            \A x \in FutureCloses(rs, i) : RLe(x, m)
        future_min(i) == CHOOSE m \in FutureCloses(rs, i) :
                            \A x \in FutureCloses(rs, i) : RLe(m, x)
        buy_hits == {i \in buys : RLt(RMul(rs[i].close, Rat(1005, 1000)), future_max(i))}
        sell_hits == {i \in sells : RLt(future_min(i), RMul(rs[i].close, Rat(995, 1000)))}
    IN  [signals |-> Cardinality(buys) + Cardinality(sells),
         successes |-> Cardinality(buy_hits) + Cardinality(sell_hits)]

\* Faulty variant: every signal is reported as followed through.
compute_signal_follow_through_all_hits(rs) ==
    IF Len(rs) < SignalRows THEN Rat(1, 2)
    ELSE IF FollowCounts(rs).signals > 0 THEN One
    ELSE Rat(1, 2)

compute_signal_follow_through(rs) ==
    IF Len(rs) < SignalRows THEN Rat(1, 2)
    ELSE IF FollowCounts(rs).signals > 0
         THEN Round3(Rat(FollowCounts(rs).successes, FollowCounts(rs).signals))
    ELSE Rat(1, 2)

\* telemetry_updater.py: horizon, the rows looked ahead.
UpdaterHorizon == 8

\* telemetry_updater.py: compute_signal_follow_through, on numeric columns whose
\* empty cells are NaN (Absent). A signal is a cell that is not NaN and not 0;
\* np.nanmax and np.nanmin skip NaN and give NaN on an all-NaN slice, which
\* fails the comparison; dividing a positive close by 0.0 gives inf.
updater_compute_signal_follow_through(rs) ==
    LET buy_idx == {i \in 1..Len(rs) : Truthy(rs[i].Buy)}
        sell_idx == {i \in 1..Len(rs) : Truthy(rs[i].Sell)}
        entered(i) == i < Len(rs) /\ rs[i].close # Absent /\ rs[i].close # Zero
        forward(i) == {rs[j].close : j \in {k \in (i + 1)..Min(i + UpdaterHorizon, Len(rs)) :
                                              rs[k].close # Absent}}
        max_fwd(i) == CHOOSE m \in forward(i) : \A x \in forward(i) : RLe(x, m)
        min_fwd(i) == CHOOSE m \in forward(i) : \A x \in forward(i) : RLe(m, x)
        buy_outcomes == {i \in buy_idx : entered(i)}
        sell_outcomes == {i \in sell_idx : entered(i)}
        buy_hits == {i \in buy_outcomes :
                        /\ forward(i) # {}
                        /\ RLe(Rat(12, 1000), RSub(RDiv(max_fwd(i), rs[i].close), One))}
        sell_hits == {i \in sell_outcomes :
                        /\ forward(i) # {}
                        /\ IF min_fwd(i) = Zero THEN RLt(Zero, rs[i].close)
                           ELSE RLe(Rat(12, 1000), RSub(RDiv(rs[i].close, min_fwd(i)), One))}
        outcomes == Cardinality(buy_outcomes) + Cardinality(sell_outcomes)
    IN  IF buy_idx = {} /\ sell_idx = {} THEN Zero
        ELSE IF outcomes = 0 THEN Zero
        ELSE RMax(Zero, RMin(One, Rat(Cardinality(buy_hits) + Cardinality(sell_hits), outcomes)))

\* stop_count when the loop of compute_stop_hunt_frequency ends.
StopCount(rs) ==
    Cardinality({i \in 1..Len(rs) : rs[i].StopBuy = One})
        + Cardinality({i \in 1..Len(rs) : rs[i].StopSell = One})

compute_stop_hunt_frequency(rs) ==
    IF Len(rs) < MinRows THEN Rat(3, 10)
    ELSE Round3(RMin(One, RDiv(Rat(StopCount(rs), Len(rs)), Rat(1, 5))))

\* sign = 1 if hist > 0 else -1, for the rows whose Histogram is not None.
HistogramSigns(rs) ==
    LET present == SelectSeq(rs, LAMBDA r : r.Histogram # Absent)
    IN  [i \in 1..Len(present) |-> IF RLt(Zero, present[i].Histogram) THEN 1 ELSE -1]

\* One pass of the loop body of compute_macd_persistence; current_sign 0 is None.
MacdStep(streaks, current_streak, current_sign, sign) ==
    IF current_sign = 0
    THEN [streaks |-> streaks, current_streak |-> 1, current_sign |-> sign]
    ELSE IF sign = current_sign
    THEN [streaks |-> streaks, current_streak |-> current_streak + 1,
          current_sign |-> current_sign]
    ELSE [streaks |-> Append(streaks, current_streak), current_streak |-> 1,
          current_sign |-> sign]

RECURSIVE MacdScan(_, _)
MacdScan(signs, i) ==
    IF i = 0 THEN [streaks |-> <<>>, current_streak |-> 0, current_sign |-> 0]
    ELSE LET before == MacdScan(signs, i - 1)
         IN  MacdStep(before.streaks, before.current_streak, before.current_sign, signs[i])

\* Faulty variant: the streak still running when the rows end is not recorded.
MacdStreaks_drop_last(rs) ==
    MacdScan(HistogramSigns(rs), Len(HistogramSigns(rs))).streaks

\* streaks after the loop and the trailing "if current_streak > 0" append.
MacdStreaks(rs) ==
    LET scanned == MacdScan(HistogramSigns(rs), Len(HistogramSigns(rs)))
    IN  IF scanned.current_streak > 0
        THEN Append(scanned.streaks, scanned.current_streak)
        ELSE scanned.streaks

compute_macd_persistence(rs) ==
    IF Len(rs) < SignalRows THEN Rat(1, 2)
    ELSE IF Len(MacdStreaks(rs)) = 0 THEN Rat(1, 2)
    ELSE Round3(RMin(One, RDiv(Rat(ISum(MacdStreaks(rs), Len(MacdStreaks(rs))),
                                   Len(MacdStreaks(rs))), Num(10))))

\* The summary dict once the seven metrics are known; ticker and lastUpdated,
\* taken from the file name and the clock, are left out.
SummaryDict(dataPoints, kernelRespectPct, bandCompression, signalFollowThrough, stopHuntFrequency, volumeReliability, macdPersistence, volatilityFactor) ==
    [status |-> "ok",
     dataPoints |-> dataPoints,
     kernelRespectPct |-> kernelRespectPct,
     bandCompression |-> bandCompression,
     signalFollowThrough |-> signalFollowThrough,
     stopHuntFrequency |-> stopHuntFrequency,
     volumeReliability |-> volumeReliability,
     macdPersistence |-> macdPersistence,
     volatilityFactor |-> volatilityFactor,
     trendAdherence |->
        Round3(RAdd(RAdd(RMul(kernelRespectPct, Rat(4, 10)),
                         RMul(macdPersistence, Rat(3, 10))),
                    RMul(signalFollowThrough, Rat(3, 10)))),
     chopSensitivity |->
        Round3(RAdd(RAdd(RMul(stopHuntFrequency, Rat(5, 10)),
                         RMul(RSub(One, bandCompression), Rat(3, 10))),
                    RMul(volatilityFactor, Rat(2, 10))))]

\* None for no rows; a metric that raises ends the call with its exception.
summarize_ticker(rs) ==
    IF Len(rs) = 0 THEN [status |-> "none"]
    ELSE IF compute_kernel_respect(rs) = Raised THEN [status |-> "raised"]
    ELSE SummaryDict(Len(rs), compute_kernel_respect(rs), compute_band_compression(rs),
                     compute_signal_follow_through(rs), compute_stop_hunt_frequency(rs),
                     compute_volume_reliability(rs), compute_macd_persistence(rs),
                     compute_volatility_factor(rs))

---------------------------------------------------------------------------
(* Inputs: CSV rows *)

\* Longest row list drawn.
MaxRows == 12

RowLens == {0, MinRows - 1, MinRows, MaxRows}

RowCloseShapes == {"absent", "flat", "zero", "steps", "gaps"}

RowKernelShapes == {"absent", "near", "far", "zero", "gaps"}

RowBandShapes == {"absent", "tight", "flat", "wide"}

RowVolumeShapes == {"absent", "flat", "zero", "steps", "few"}

RowCloseAt(shape, i) ==
    CASE shape = "absent" -> Absent
      [] shape = "flat"   -> Num(100)
      [] shape = "zero"   -> Zero
      [] shape = "steps"  -> IF i % 3 = 0 THEN Num(110) ELSE IF i % 3 = 1 THEN Num(100)
                             ELSE Num(101)
      [] shape = "gaps"   -> IF i % 4 = 0 THEN Zero ELSE IF i % 4 = 1 THEN Absent
                             ELSE Num(100 + (i % 2))

RowKernelAt(shape, i) ==
    CASE shape = "absent" -> Absent
      [] shape = "near"   -> Num(99)
      [] shape = "far"    -> Num(50)
      [] shape = "zero"   -> Zero
      [] shape = "gaps"   -> IF i % 2 = 0 THEN Absent ELSE Num(100)

RowBandsAt(shape) ==
    CASE shape = "absent" -> <<Absent, Absent>>
      [] shape = "tight"  -> <<Num(105), Num(95)>>
      [] shape = "flat"   -> <<Num(100), Num(100)>>
      [] shape = "wide"   -> <<Num(150), Num(50)>>

RowVolumeAt(shape, i) ==
    CASE shape = "absent" -> Absent
      [] shape = "flat"   -> Num(1000)
      [] shape = "zero"   -> Zero
      [] shape = "steps"  -> Num(10 + (i % 3))
      [] shape = "few"    -> IF i <= 5 THEN Num(10 * i) ELSE Absent

BuildRows(len, cs, ks, bs, vs) ==
    [i \in 1..len |->
        [close |-> RowCloseAt(cs, i),
         kernel |-> RowKernelAt(ks, i),
         A5 |-> RowBandsAt(bs)[1],
         E5 |-> RowBandsAt(bs)[2],
         Volume |-> RowVolumeAt(vs, i),
         Buy |-> Absent, Sell |-> Absent, StopBuy |-> Absent, StopSell |-> Absent,
         Histogram |-> Absent]]

InitSummary ==
    /\ unit = "summary"
    /\ \E len \in RowLens, cs \in RowCloseShapes, ks \in RowKernelShapes,
          bs \in RowBandShapes, vs \in RowVolumeShapes :
            rows = BuildRows(len, cs, ks, bs, vs)
    /\ bars = <<>> /\ benchmark_bars = <<>>
    /\ ticker_telemetries = <<>>
    /\ call = ""
    /\ telemetry = NoTelemetry("pending")
    /\ metric = Absent
    /\ portfolio = NoPortfolio("pending")
    /\ args = <<>>
    /\ visual = NoVisual
    /\ raw_files = <<>>
    /\ written = NothingWritten
    /\ summary = NoSummary
    /\ updater = NoRun

ComputeKernelRespect ==
    /\ unit = "summary" /\ call = ""
    /\ call' = "compute_kernel_respect"
    /\ metric' = compute_kernel_respect(rows)
    /\ UNCHANGED <<summary, updater, raw_files, written, args, visual, unit, bars, benchmark_bars, ticker_telemetries, rows, telemetry, portfolio>>

ComputeBandCompression ==
    /\ unit = "summary" /\ call = ""
    /\ call' = "compute_band_compression"
    /\ metric' = compute_band_compression(rows)
    /\ UNCHANGED <<summary, updater, raw_files, written, args, visual, unit, bars, benchmark_bars, ticker_telemetries, rows, telemetry, portfolio>>

ComputeVolumeReliability ==
    /\ unit = "summary" /\ call = ""
    /\ call' = "compute_volume_reliability"
    /\ metric' = compute_volume_reliability(rows)
    /\ UNCHANGED <<summary, updater, raw_files, written, args, visual, unit, bars, benchmark_bars, ticker_telemetries, rows, telemetry, portfolio>>

ComputeVolatilityFactor ==
    /\ unit = "summary" /\ call = ""
    /\ call' = "compute_volatility_factor"
    /\ metric' = compute_volatility_factor(rows)
    /\ UNCHANGED <<summary, updater, raw_files, written, args, visual, unit, bars, benchmark_bars, ticker_telemetries, rows, telemetry, portfolio>>

---------------------------------------------------------------------------
(* data/generate_telemetry.py: clamp and the visual parameters *)

\* pd.isna(value) is modelled by Absent.
\* Faulty variant: a missing value gives the lower bound.
clamp_missing_low(value, min_val, max_val) ==
    IF value = Absent THEN min_val
    ELSE RMax(min_val, RMin(max_val, value))

clamp(value, min_val, max_val) ==
    IF value = Absent THEN RDiv(RAdd(min_val, max_val), Num(2))
    ELSE RMax(min_val, RMin(max_val, value))

\* Faulty variant: glow is clamped to [0, 1], without its floor of 0.2.
compute_visual_params_no_floor(trend, momentum, volatility, activity) ==
    [glow |-> clamp(RAdd(RMul(RAbs(momentum), Rat(1, 2)), RMul(activity, Rat(1, 2))),
                    Zero, One),
     jitter |-> RMul(volatility, Rat(3, 10)),
     thrust |-> clamp(RMul(RMax(Zero, momentum), activity), Zero, One),
     damage |-> clamp(RMul(RMax(Zero, RNeg(trend)), volatility), Zero, One)]

compute_visual_params(trend, momentum, volatility, activity) ==
    [glow |-> clamp(RAdd(RMul(RAbs(momentum), Rat(1, 2)), RMul(activity, Rat(1, 2))),
                    Rat(1, 5), One),
     jitter |-> RMul(volatility, Rat(3, 10)),
     thrust |-> clamp(RMul(RMax(Zero, momentum), activity), Zero, One),
     damage |-> clamp(RMul(RMax(Zero, RNeg(trend)), volatility), Zero, One)]

---------------------------------------------------------------------------
(* Inputs: CSV rows with signal, stop and histogram columns *)

\* Longest row list with signal columns drawn.
MaxSignalRows == 21

SignalCloseAt(shape, i) ==
    CASE shape = "absent" -> Absent
      [] shape = "flat"   -> Num(100)
      [] shape = "zero"   -> Zero
      [] shape = "swing"  -> IF i % 2 = 1 THEN Num(100) ELSE Num(125)
      [] shape = "step"   -> IF i <= 10 THEN Num(100) ELSE Num(125)
      [] shape = "drop"   -> IF i <= 10 THEN Num(125) ELSE Num(100)
      [] shape = "creep"  -> IF i % 2 = 1 THEN Num(1000) ELSE Num(1004)
      [] shape = "gaps"   -> IF i % 3 = 0 THEN Absent
                             ELSE IF i % 3 = 1 THEN Num(100) ELSE Num(125)

\* <<Buy, Sell>> of row i of len rows
SignalAt(shape, i, len) ==
    CASE shape = "absent" -> <<Absent, Absent>>
      [] shape = "buys"   -> <<IF i % 4 = 1 THEN One ELSE Absent, Absent>>
      [] shape = "sells"  -> <<Absent, IF i % 4 = 2 THEN One ELSE Absent>>
      [] shape = "both"   -> IF i % 5 = 0 THEN <<One, One>> ELSE <<Absent, Absent>>
      [] shape = "tail"   -> <<IF i > len - 3 THEN One ELSE Absent, Absent>>
      [] shape = "mixed"  -> <<IF i % 3 = 1 THEN One ELSE IF i = 5 THEN Num(2) ELSE Zero,
                               IF i % 3 = 2 THEN One ELSE Absent>>

\* <<StopBuy, StopSell>> of row i
StopAt(shape, i) ==
    CASE shape = "absent" -> <<Absent, Absent>>
      [] shape = "buy"    -> <<IF i % 7 = 1 THEN One ELSE Absent, Absent>>
      [] shape = "sell"   -> <<Absent, IF i % 10 = 2 THEN One ELSE Absent>>
      [] shape = "both"   -> IF i % 10 = 3 THEN <<One, One>> ELSE <<Absent, Absent>>
      [] shape = "dense"  -> <<One, One>>
      [] shape = "zeros"  -> <<Zero, Zero>>

HistogramAt(shape, i) ==
    CASE shape = "absent" -> Absent
      [] shape = "pos"    -> Rat(1, 2)
      [] shape = "alt"    -> IF i % 2 = 0 THEN Rat(1, 2) ELSE Rat(-1, 2)
      [] shape = "runs"   -> IF ((i - 1) \div 3) % 2 = 0 THEN Rat(1, 4) ELSE Rat(-1, 4)
      [] shape = "zeros"  -> Zero
      [] shape = "gaps"   -> IF i % 4 = 0 THEN Absent
                             ELSE IF i % 7 < 3 THEN Rat(1, 10) ELSE Rat(-1, 10)

BuildSignalRows(len, cs, ks, sg, st, hs) ==
    [i \in 1..len |->
        [close |-> SignalCloseAt(cs, i),
         kernel |-> RowKernelAt(ks, i),
         A5 |-> Num(105),
         E5 |-> Num(95),
         Volume |-> Num(1000),
         Buy |-> SignalAt(sg, i, len)[1],
         Sell |-> SignalAt(sg, i, len)[2],
         StopBuy |-> StopAt(st, i)[1],
         StopSell |-> StopAt(st, i)[2],
         Histogram |-> HistogramAt(hs, i)]]

\* The row lists drawn: one column family varied at a time over every length,
\* then whole tickers.
SignalInputs ==
    LET lens == {0, MinRows - 1, MinRows, SignalRows - 1, SignalRows, MaxSignalRows}
        closes == {"absent", "flat", "zero", "swing", "step", "drop", "creep", "gaps"}
        signals == {"absent", "buys", "sells", "both", "tail", "mixed"}
        stops == {"absent", "buy", "sell", "both", "dense", "zeros"}
        histograms == {"absent", "pos", "alt", "runs", "zeros", "gaps"}
    IN  {BuildSignalRows(len, cs, "near", sg, "absent", "absent") :
            len \in lens, cs \in closes, sg \in signals}
        \cup {BuildSignalRows(len, "flat", "near", "absent", st, "absent") :
            len \in lens, st \in stops}
        \cup {BuildSignalRows(len, "flat", "near", "absent", "absent", hs) :
            len \in lens, hs \in histograms}
        \cup {BuildSignalRows(len, cs, ks, sg, st, hs) :
            len \in lens, cs \in {"flat", "swing", "zero"},
            ks \in {"near", "zero", "absent"}, sg \in {"buys", "both"},
            st \in {"buy", "dense"}, hs \in {"runs", "alt"}}

InitSignals ==
    /\ unit = "signals"
    /\ rows \in SignalInputs
    /\ bars = <<>> /\ benchmark_bars = <<>>
    /\ ticker_telemetries = <<>>
    /\ call = ""
    /\ telemetry = NoTelemetry("pending")
    /\ metric = Absent
    /\ portfolio = NoPortfolio("pending")
    /\ args = <<>>
    /\ visual = NoVisual
    /\ raw_files = <<>>
    /\ written = NothingWritten
    /\ summary = NoSummary
    /\ updater = NoRun

ComputeSignalFollowThrough ==
    /\ unit = "signals" /\ call = ""
    /\ call' = "compute_signal_follow_through"
    /\ metric' = compute_signal_follow_through(rows)
    /\ UNCHANGED <<summary, updater, raw_files, written, args, visual, unit, bars, benchmark_bars, ticker_telemetries, rows, telemetry, portfolio>>

UpdaterSignalFollowThrough ==
    /\ unit = "signals" /\ call = ""
    /\ call' = "updater_compute_signal_follow_through"
    /\ metric' = updater_compute_signal_follow_through(rows)
    /\ UNCHANGED <<summary, updater, raw_files, written, args, visual, unit, bars, benchmark_bars, ticker_telemetries, rows, telemetry, portfolio>>

ComputeStopHuntFrequency ==
    /\ unit = "signals" /\ call = ""
    /\ call' = "compute_stop_hunt_frequency"
    /\ metric' = compute_stop_hunt_frequency(rows)
    /\ UNCHANGED <<summary, updater, raw_files, written, args, visual, unit, bars, benchmark_bars, ticker_telemetries, rows, telemetry, portfolio>>

ComputeMacdPersistence ==
    /\ unit = "signals" /\ call = ""
    /\ call' = "compute_macd_persistence"
    /\ metric' = compute_macd_persistence(rows)
    /\ UNCHANGED <<summary, updater, raw_files, written, args, visual, unit, bars, benchmark_bars, ticker_telemetries, rows, telemetry, portfolio>>

SummarizeTicker ==
    /\ unit \in {"summary", "signals"} /\ call = ""
    /\ call' = "summarize_ticker"
    /\ summary' = summarize_ticker(rows)
    /\ UNCHANGED <<updater, raw_files, written, args, visual, unit, bars, benchmark_bars, ticker_telemetries, rows, telemetry, metric, portfolio>>

---------------------------------------------------------------------------
(* Inputs: metric results given to the visual mappings *)

TrendValues == {Num(-1), Rat(-1, 2), Zero, One}

MomentumValues == {Num(-1), Rat(-1, 4), Zero, Rat(1, 2), One}

VolatilityValues == {Zero, Rat(3, 10), One, Num(4)}

ActivityValues == {Zero, Rat(1, 2), One}

DrawdownValues == {Num(-1), Rat(-1, 2), Zero}

\* args = <<trend, momentum, volatility, activity, drawdown>>
InitVisual ==
    /\ unit = "visual"
    /\ \E trend \in TrendValues, momentum \in MomentumValues,
          volatility \in VolatilityValues, activity \in ActivityValues,
          drawdown \in DrawdownValues :
            args = <<trend, momentum, volatility, activity, drawdown>>
    /\ bars = <<>> /\ benchmark_bars = <<>>
    /\ ticker_telemetries = <<>>
    /\ rows = <<>>
    /\ call = ""
    /\ telemetry = NoTelemetry("pending")
    /\ metric = Absent
    /\ portfolio = NoPortfolio("pending")
    /\ visual = NoVisual
    /\ raw_files = <<>>
    /\ written = NothingWritten
    /\ summary = NoSummary
    /\ updater = NoRun

\* The risk and visual mappings of generate_telemetry, on given core metrics.
VisualMapping ==
    /\ unit = "visual" /\ call = ""
    /\ call' = "visual_mapping"
    /\ telemetry' = DerivedTelemetry(0, Zero, Zero, args[1], args[2], args[3], args[4],
                                     "neutral", args[5], Zero)
    /\ UNCHANGED <<summary, updater, raw_files, written, args, visual, unit, bars, benchmark_bars, ticker_telemetries, rows, metric, portfolio>>

ComputeVisualParams ==
    /\ unit = "visual" /\ call = ""
    /\ call' = "compute_visual_params"
    /\ visual' = compute_visual_params(args[1], args[2], args[3], args[4])
    /\ UNCHANGED <<summary, updater, raw_files, written, args, unit, bars, benchmark_bars, ticker_telemetries, rows, telemetry, metric, portfolio>>

---------------------------------------------------------------------------
(* scripts/generate_telemetry.py: process_all *)

BENCHMARKS == <<"XAR", "SPY", "QQQ">>

InBenchmarks(symbol) == \E i \in 1..Len(BENCHMARKS) : BENCHMARKS[i] = symbol

\* The symbols measured against SPY instead of XAR.
SpyMeasured == {"GE", "GME", "RTX", "LHX", "COHR", "EVEX"}

NoData == [tf \in Timeframes |-> <<>>]

\* benchmark_data.get(bench_symbol, {}): the data of the benchmark's raw file,
\* when that file exists.
BenchmarkData(files, symbol) ==
    LET bench_symbol == IF symbol \in SpyMeasured THEN "SPY" ELSE "XAR"
        found == SelectSeq(files, LAMBDA f : f.symbol = bench_symbol)
    IN  IF Len(found) = 0 THEN NoData ELSE found[1].data

\* The telemetry of one raw file for one timeframe; none for an empty bar list.
FileTelemetry(files, f, tf) ==
    IF Len(f.data[tf]) = 0 THEN NoTelemetry("none")
    ELSE generate_telemetry(f.data[tf], BenchmarkData(files, f.symbol)[tf])

\* all_telemetry[tf] once the loop over the files is done, in insertion order.
AllTelemetry(files, tf) ==
    LET entries == [i \in 1..Len(files) |->
                      [symbol |-> files[i].symbol,
                       telemetry |-> FileTelemetry(files, files[i], tf)]]
    IN  SelectSeq(entries, LAMBDA e : e.telemetry.status # "none")

\* Faulty variant: the benchmarks' telemetry is folded into the portfolio too.
Tickers_with_benchmarks(entries) ==
    [i \in 1..Len(entries) |-> entries[i].telemetry]

\* [t for s, t in all_telemetry[tf].items() if s not in BENCHMARKS]
Tickers(entries) ==
    LET kept == SelectSeq(entries, LAMBDA e : ~InBenchmarks(e.symbol))
    IN  [i \in 1..Len(kept) |-> kept[i].telemetry]

\* The manifest's symbols: [s for s in symbols if s not in BENCHMARKS].
ManifestSymbols(files) ==
    LET symbols == [i \in 1..Len(files) |-> files[i].symbol]
    IN  SelectSeq(symbols, LAMBDA s : ~InBenchmarks(s))

\* What process_all writes: a portfolio per timeframe ("none": no file), and the
\* manifest; "raised" when generate_telemetry raised and the run stopped.
process_all(files) ==
    IF \E tf \in Timeframes :
          \E i \in 1..Len(AllTelemetry(files, tf)) :
              AllTelemetry(files, tf)[i].telemetry.status = "raised"
    THEN [portfolio |-> [tf \in Timeframes |-> NoPortfolio("raised")], symbols |-> <<>>]
    ELSE [portfolio |-> [tf \in Timeframes |->
                           generate_portfolio_telemetry(Tickers(AllTelemetry(files, tf)))],
          symbols |-> ManifestSymbols(files)]

---------------------------------------------------------------------------
(* Inputs: the raw directory *)

\* File stems in sorted order: two benchmarks, two other symbols.
RawSymbols == <<"GME", "QQQ", "RKLB", "XAR">>

\* What a raw file holds: nothing for any timeframe, daily bars only, intraday
\* bars only, bars for every timeframe.  "missing": the file does not exist.
RawShapes == {"missing", "empty", "daily", "intraday", "all"}

RawData(shape, i) ==
    [tf \in Timeframes |->
        IF \/ shape = "all"
           \/ shape = "daily" /\ tf = "1D"
           \/ shape = "intraday" /\ tf = "45m"
        THEN (IF i % 2 = 0 THEN PlainBars(2, "rise") ELSE PlainBars(1, "flat"))
        ELSE <<>>]

RawFiles(shapes) ==
    LET all == [i \in 1..Len(RawSymbols) |-> [index |-> i, shape |-> shapes[i]]]
        existing == SelectSeq(all, LAMBDA f : f.shape # "missing")
    IN  [k \in 1..Len(existing) |->
            [symbol |-> RawSymbols[existing[k].index],
             data |-> RawData(existing[k].shape, existing[k].index)]]

InitProcess ==
    /\ unit = "process"
    /\ \E shapes \in [1..Len(RawSymbols) -> RawShapes] : raw_files = RawFiles(shapes)
    /\ bars = <<>> /\ benchmark_bars = <<>>
    /\ ticker_telemetries = <<>>
    /\ rows = <<>>
    /\ call = ""
    /\ telemetry = NoTelemetry("pending")
    /\ metric = Absent
    /\ portfolio = NoPortfolio("pending")
    /\ args = <<>>
    /\ visual = NoVisual
    /\ written = NothingWritten
    /\ summary = NoSummary
    /\ updater = NoRun

ProcessAll ==
    /\ unit = "process" /\ call = ""
    /\ call' = "process_all"
    /\ written' = process_all(raw_files)
    /\ UNCHANGED <<summary, updater, raw_files, args, visual, unit, bars, benchmark_bars, ticker_telemetries, rows, telemetry, metric, portfolio>>

---------------------------------------------------------------------------
(* The specification: one call of one function on one drawn input. *)

---------------------------------------------------------------------------
(* Inputs: arguments of the utility functions *)

FunctionValues ==
    {Absent, Num(-2), Rat(-1, 2), Zero, Rat(1, 5), Rat(1, 2), One, Rat(3, 2), Num(4)}

FunctionLimits == {Num(-2), Num(-1), Zero, Rat(1, 5), One, Num(2)}

\* args = <<value, second argument, third argument, clamp flag>>
InitFunction ==
    /\ unit = "function"
    /\ \E x \in FunctionValues, a \in FunctionLimits, b \in FunctionLimits,
          flag \in BOOLEAN :
            args = <<x, a, b, flag>>
    /\ bars = <<>> /\ benchmark_bars = <<>>
    /\ ticker_telemetries = <<>>
    /\ rows = <<>>
    /\ call = ""
    /\ telemetry = NoTelemetry("pending")
    /\ metric = Absent
    /\ portfolio = NoPortfolio("pending")
    /\ visual = NoVisual
    /\ raw_files = <<>>
    /\ written = NothingWritten
    /\ summary = NoSummary
    /\ updater = NoRun

\* data/generate_telemetry.py: clamp(value, min_val, max_val)
Clamp ==
    /\ unit = "function" /\ call = ""
    /\ call' = "clamp"
    /\ metric' = clamp(args[1], args[2], args[3])
    /\ UNCHANGED <<summary, updater, raw_files, written, args, visual, unit, bars, benchmark_bars, ticker_telemetries, rows, telemetry, portfolio>>

\* scripts/generate_telemetry.py: normalize(val, min_val, max_val, clamp)
Normalize ==
    /\ unit = "function" /\ call = ""
    /\ call' = "normalize"
    /\ metric' = normalize(args[1], args[2], args[3], args[4])
    /\ UNCHANGED <<summary, updater, raw_files, written, args, visual, unit, bars, benchmark_bars, ticker_telemetries, rows, telemetry, portfolio>>

\* scripts/generate_telemetry.py: z_score(val, mean, std)
ZScore ==
    /\ unit = "function" /\ call = ""
    /\ call' = "z_score"
    /\ metric' = z_score(args[1], args[2], args[3])
    /\ UNCHANGED <<summary, updater, raw_files, written, args, visual, unit, bars, benchmark_bars, ticker_telemetries, rows, telemetry, portfolio>>

---------------------------------------------------------------------------
---------------------------------------------------------------------------
(* telemetry_updater.py: main *)

\* Most CSV files in the folder.
MaxCsvs == 3

\* updater.status is the place main has reached; argv holds the flags as given,
\* commit and push are args.commit and args.push; csvs is sorted(csvs), each
\* file by what summarize_csv does with it; written lists the files whose
\* summary was written; commands lists the git_run calls with their return code.
InitUpdater ==
    /\ unit = "updater"
    /\ \E commit \in BOOLEAN, push \in BOOLEAN, n \in 0..MaxCsvs :
          \E csvs \in [1..n -> {"ok", "raises"}] :
              updater = [status |-> "start",
                         argv |-> [commit |-> commit, push |-> push],
                         commit |-> commit, push |-> push,
                         csvs |-> csvs, pos |-> 0,
                         written |-> <<>>, commands |-> <<>>]
    /\ bars = <<>> /\ benchmark_bars = <<>>
    /\ ticker_telemetries = <<>>
    /\ rows = <<>>
    /\ call = ""
    /\ telemetry = NoTelemetry("pending")
    /\ metric = Absent
    /\ portfolio = NoPortfolio("pending")
    /\ args = <<>>
    /\ visual = NoVisual
    /\ raw_files = <<>>
    /\ written = NothingWritten
    /\ summary = NoSummary

\* csvs = [...]; if not csvs: raise SystemExit
ListCsvs ==
    /\ unit = "updater" /\ updater.status = "start"
    /\ updater' = IF Len(updater.csvs) = 0
                  THEN [updater EXCEPT !.status = "exit"]
                  ELSE [updater EXCEPT !.status = "loop", !.pos = 1]
    /\ UNCHANGED <<summary, raw_files, written, args, visual, unit, bars, benchmark_bars, ticker_telemetries, rows, call, telemetry, metric, portfolio>>

\* One pass of "for p in sorted(csvs)": a summary that raises is skipped,
\* any other is written and appended to written.
SummarizeCsv ==
    /\ unit = "updater" /\ updater.status = "loop"
    /\ updater.pos <= Len(updater.csvs)
    /\ updater' = IF updater.csvs[updater.pos] = "raises"
                  THEN [updater EXCEPT !.pos = @ + 1]
                  ELSE [updater EXCEPT !.pos = @ + 1,
                                       !.written = Append(@, updater.pos)]
    /\ UNCHANGED <<summary, raw_files, written, args, visual, unit, bars, benchmark_bars, ticker_telemetries, rows, call, telemetry, metric, portfolio>>

\* Faulty variant: --push does not set args.commit.
EndLoop_push_without_commit ==
    /\ unit = "updater" /\ updater.status = "loop"
    /\ updater.pos > Len(updater.csvs)
    /\ updater' = IF Len(updater.written) = 0
                  THEN [updater EXCEPT !.status = "exit"]
                  ELSE [updater EXCEPT !.status = IF updater.commit THEN "add" ELSE "done"]
    /\ UNCHANGED <<summary, raw_files, written, args, visual, unit, bars, benchmark_bars, ticker_telemetries, rows, call, telemetry, metric, portfolio>>

\* After the loop: SystemExit when nothing was written; args.push sets
\* args.commit; without args.commit main returns.
EndLoop ==
    /\ unit = "updater" /\ updater.status = "loop"
    /\ updater.pos > Len(updater.csvs)
    /\ updater' = IF Len(updater.written) = 0
                  THEN [updater EXCEPT !.status = "exit"]
                  ELSE [updater EXCEPT !.commit = updater.commit \/ updater.push,
                                       !.status = IF updater.commit \/ updater.push
                                                  THEN "add" ELSE "done"]
    /\ UNCHANGED <<summary, raw_files, written, args, visual, unit, bars, benchmark_bars, ticker_telemetries, rows, call, telemetry, metric, portfolio>>

\* git_run(repo_root, ["add"] + rels); the return code is not looked at.
GitAdd ==
    /\ unit = "updater" /\ updater.status = "add"
    /\ \E code \in {0, 1} :
          updater' = [updater EXCEPT !.commands = Append(@, <<"add", code>>),
                                     !.status = "commit"]
    /\ UNCHANGED <<summary, raw_files, written, args, visual, unit, bars, benchmark_bars, ticker_telemetries, rows, call, telemetry, metric, portfolio>>

\* git_run(repo_root, ["commit", "-m", msg]); then "if args.push".
GitCommit ==
    /\ unit = "updater" /\ updater.status = "commit"
    /\ \E code \in {0, 1} :
          updater' = [updater EXCEPT !.commands = Append(@, <<"commit", code>>),
                                     !.status = IF updater.push THEN "push" ELSE "done"]
    /\ UNCHANGED <<summary, raw_files, written, args, visual, unit, bars, benchmark_bars, ticker_telemetries, rows, call, telemetry, metric, portfolio>>

\* git_run(repo_root, ["push"])
GitPush ==
    /\ unit = "updater" /\ updater.status = "push"
    /\ \E code \in {0, 1} :
          updater' = [updater EXCEPT !.commands = Append(@, <<"push", code>>),
                                     !.status = "done"]
    /\ UNCHANGED <<summary, raw_files, written, args, visual, unit, bars, benchmark_bars, ticker_telemetries, rows, call, telemetry, metric, portfolio>>

Init ==
    InitTelemetry \/ InitPortfolio \/ InitSummary \/ InitVisual \/ InitProcess \/ InitFunction
    \/ InitSignals \/ InitUpdater

Next ==
    \/ GenerateTelemetry
    \/ ComputeDrawdown
    \/ ComputeRelativePerformance
    \/ ComputeTrend
    \/ ComputeActivity
    \/ GeneratePortfolioTelemetry
    \/ ComputeKernelRespect
    \/ ComputeBandCompression
    \/ ComputeVolumeReliability
    \/ ComputeVolatilityFactor
    \/ VisualMapping
    \/ ComputeVisualParams
    \/ ProcessAll
    \/ Clamp
    \/ Normalize
    \/ ZScore
    \/ ComputeSignalFollowThrough
    \/ UpdaterSignalFollowThrough
    \/ ComputeStopHuntFrequency
    \/ ComputeMacdPersistence
    \/ SummarizeTicker
    \/ ListCsvs
    \/ SummarizeCsv
    \/ EndLoop
    \/ GitAdd
    \/ GitCommit
    \/ GitPush

Spec == Init /\ [][Next]_vars

\* C9 (as claimed): no metric raises a division fault on degenerate input: for
\* rows or bars whose close, kernel estimate, volume or moving average is zero,
\* for zero-variance and for empty series, compute_kernel_respect,
\* compute_band_compression, compute_volume_reliability,
\* compute_volatility_factor, compute_drawdown and compute_relative_performance
\* each return a value.
C9_NoDivisionFault ==
    call \in {"compute_kernel_respect", "compute_band_compression",
              "compute_volume_reliability", "compute_volatility_factor",
              "compute_drawdown", "compute_relative_performance"}
    => IsNum(metric)


---------------------------------------------------------------------------
(* Claims about compute_trend *)

\* The value of a list of <<counted, value>> signals: the mean of the counted
\* ones, 0 when none is counted.
MeanOfCounted(signals) ==
    LET counted == SelectSeq(signals, LAMBDA sg : sg[1])
        values == [i \in 1..Len(counted) |-> counted[i][2]]
    IN  IF Len(counted) = 0 THEN Zero
        ELSE RDiv(RSum(values, Len(values)), Num(Len(values)))

\* +1 for a close above the level, -1 otherwise (nothing without both).
SideOf(close, level) ==
    IF ~IsNum(close) \/ ~IsNum(level) THEN Absent
    ELSE IF RLt(level, close) THEN One ELSE Num(-1)

\* The close at the start of the trend lookback (the last bar's when absent).
TrendOldClose ==
    IF Len(bars) < TrendLookback THEN Absent
    ELSE Get(bars[Len(bars) - TrendLookback + 1], "c", Get(LastBar, "c", Zero))

\* normalize(return over the lookback, -0.2, 0.2) * 2 - 1
TrendReturnSignal ==
    LET close == Get(LastBar, "c", Zero)
        ret == RDiv(RSub(close, TrendOldClose), TrendOldClose)
    IN  IF ~IsNum(TrendOldClose) \/ ~IsNum(ret) THEN Absent
        ELSE RSub(RMul(normalize(ret, Rat(-1, 5), Rat(1, 5), TRUE), Num(2)), One)

\* The signals as the claim words them: a moving average counts when it is
\* present, the histogram when it has a sign, the return when more than
\* lookback bars exist.
ClaimedTrendSignals ==
    <<  <<LastBar.g100 # Absent, SideOf(LastBar.c, LastBar.g100)>>,
        <<LastBar.g150 # Absent, SideOf(LastBar.c, LastBar.g150)>>,
        <<LastBar.g200 # Absent, SideOf(LastBar.c, LastBar.g200)>>,
        <<Truthy(LastBar.hist), SideOf(LastBar.hist, Zero)>>,
        <<Len(bars) > TrendLookback, TrendReturnSignal>>  >>

\* The inputs on which the claim's wording fixes every signal: the close is
\* present and differs from each present moving average, and the return over
\* the lookback is defined.
TrendClaimDetermined ==
    /\ LastBar.c # Absent
    /\ \A g \in {LastBar.g100, LastBar.g150, LastBar.g200} : g # LastBar.c
    /\ Len(bars) > TrendLookback => RLt(Zero, TrendOldClose)

\* C11 (as claimed): compute_trend returns the mean of the signals present:
\* +1 or -1 for the close above or below each present moving average, +1 or -1
\* for the sign of the histogram, the normalised lookback return when more
\* than lookback bars exist; 0 when no signal is present.
C11_TrendMeanOfPresent ==
    (call = "compute_trend" /\ TrendClaimDetermined)
        => metric = MeanOfCounted(ClaimedTrendSignals)

\* The signals compute_trend counts: a moving average when it is present and
\* non-zero and the close is positive, the histogram when it is non-zero, the
\* return when more than lookback bars exist and the close at the start of the
\* lookback is positive.
CountedTrendSignals ==
    LET close == Get(LastBar, "c", Zero)
        Counts(g) == g # Absent /\ g # Zero /\ RLt(Zero, close)
    IN  <<  <<Counts(LastBar.g100), SideOf(close, LastBar.g100)>>,
            <<Counts(LastBar.g150), SideOf(close, LastBar.g150)>>,
            <<Counts(LastBar.g200), SideOf(close, LastBar.g200)>>,
            <<Truthy(LastBar.hist), SideOf(LastBar.hist, Zero)>>,
            <<Len(bars) > TrendLookback /\ RLt(Zero, TrendOldClose),
              TrendReturnSignal>>  >>

\* C11 (amended): compute_trend returns the mean of the signals it counts: +1
\* for a close above, -1 for a close not above, each moving average that is
\* present and non-zero while the close is positive; +1 or -1 for the sign of a
\* non-zero histogram; the normalised lookback return when more than lookback
\* bars exist and the close at the start of the lookback is positive; 0 when no
\* signal is counted.
C11_TrendMeanOfCounted ==
    call = "compute_trend" => metric = MeanOfCounted(CountedTrendSignals)

\* C11 witness: two moving averages on opposite sides of the close, one absent,
\* a positive histogram and a lookback return: four signals, none of them
\* cancelling to the no-signal value.
C11_Witness ==
    /\ call = "compute_trend"
    /\ Len(bars) > TrendLookback
    /\ LastBar.g100 = Num(90) /\ LastBar.g150 = Num(200) /\ LastBar.g200 = Absent
    /\ LastBar.hist = Rat(3, 10)
    /\ RLt(Zero, LastBar.c) /\ RLt(Zero, TrendOldClose)
    /\ metric # Zero
    /\ metric = MeanOfCounted(CountedTrendSignals)

---------------------------------------------------------------------------
(* Claims about the visual mappings *)

InUnit(x) == IsNum(x) /\ RLe(Zero, x) /\ RLe(x, One)

\* glow, jitter, thrust, cohesion and ring of generate_telemetry lie in [0, 1].
ScriptsVisualInUnitRange ==
    (call \in {"visual_mapping", "generate_telemetry"} /\ telemetry.status = "ok") =>
        \A k \in {"glow", "jitter", "thrust", "cohesion", "ring"} :
            telemetry.visual[k] \in 0..10000

\* glow, jitter, thrust and damage of compute_visual_params lie in [0, 1].
DataVisualInUnitRange ==
    call = "compute_visual_params" =>
        \A k \in {"glow", "jitter", "thrust", "damage"} : InUnit(visual[k])

\* C12 (as claimed): for every metric result with trend and momentum in
\* [-1, 1], activity in [0, 1], volatility >= 0 and drawdown in [-1, 0], every
\* visual parameter lies in [0, 1]: glow, jitter, thrust, cohesion and ring of
\* generate_telemetry, and glow, jitter, thrust and damage of
\* compute_visual_params.
C12_VisualInUnitRange == ScriptsVisualInUnitRange /\ DataVisualInUnitRange


---------------------------------------------------------------------------
(* Claims about the portfolio summary *)

PortfolioReturned == call = "generate_portfolio_telemetry" /\ portfolio.status = "ok"

\* The positions of the constituents: the entries that are not None.
Constituents == {i \in 1..Len(ticker_telemetries) : ticker_telemetries[i].status # "none"}

\* The simple mean over the constituents of term(t).
ConstituentMean(term(_)) ==
    LET terms == [i \in 1..Len(ticker_telemetries) |->
                    IF i \in Constituents THEN term(ticker_telemetries[i]) ELSE Zero]
    IN  RDiv(RSum(terms, Len(terms)), Num(Cardinality(Constituents)))

HealthTerm(t) ==
    RAdd(RMul(RMax(Zero, RSub(One, Val(t.risk.stress))), Rat(7, 10)),
         RMul(RMax(Zero, Val(t.momentum)), Rat(3, 10)))

\* C13: the healthScore of the returned portfolio record is the mean over the
\* constituents of max(0, 1 - stress) * 0.7 + max(0, momentum) * 0.3, at the
\* record's resolution of 4 decimals, and lies in [0, 1] when every
\* constituent has stress in [0, 1] and momentum in [-1, 1].
C13_HealthScoreIsMean ==
    PortfolioReturned =>
        /\ portfolio.healthScore = Round(ConstituentMean(HealthTerm), 4)
        /\ (\A i \in Constituents :
               /\ ticker_telemetries[i].risk.stress \in 0..10000
               /\ ticker_telemetries[i].momentum \in -10000..10000)
           => portfolio.healthScore \in 0..10000

\* C13 witness: three entries, one of them None, one with a negative momentum;
\* the mean of the two constituents is not a whole number of 0.0001.
C13_Witness ==
    /\ PortfolioReturned
    /\ Len(ticker_telemetries) = 3 /\ Cardinality(Constituents) = 2
    /\ \E i \in Constituents : ticker_telemetries[i].momentum < 0
    /\ \E i \in Constituents : ticker_telemetries[i].risk.stress = 1234
    /\ portfolio.healthScore = Round(ConstituentMean(HealthTerm), 4)
    /\ portfolio.healthScore \in 1..9999

\* The portfolio record of the list holding the single telemetry t.
PortfolioOfOne(t) == generate_portfolio_telemetry(<<t>>)

\* C14: avgMomentum, avgVolatility and avgStress are the simple means of the
\* constituents' momentum, volatility and stress (at 4 decimals); sentiment is
\* normalize(avgMomentum, -0.5, 0.5): it lies in [0, 1], is 0.5 when the mean
\* momentum is 0, and a portfolio with a larger mean momentum never has a
\* smaller sentiment.
C14_MeansAndSentiment ==
    PortfolioReturned =>
        LET avg_momentum == ConstituentMean(LAMBDA t : Val(t.momentum))
        IN  /\ portfolio.summary.avgMomentum = Round(avg_momentum, 4)
            /\ portfolio.summary.avgVolatility
                  = Round(ConstituentMean(LAMBDA t : Val(t.volatility)), 4)
            /\ portfolio.summary.avgStress
                  = Round(ConstituentMean(LAMBDA t : Val(t.risk.stress)), 4)
            /\ portfolio.summary.tickerCount = Cardinality(Constituents)
            /\ portfolio.sentiment
                  = Round(RMax(Zero, RMin(One, RAdd(avg_momentum, Rat(1, 2)))), 4)
            /\ portfolio.sentiment \in 0..10000
            /\ avg_momentum = Zero => portfolio.sentiment = 5000
            /\ \A t \in TickerSamples : t.status = "ok" =>
                  /\ RLe(avg_momentum, Val(t.momentum))
                        => portfolio.sentiment <= PortfolioOfOne(t).sentiment
                  /\ RLe(Val(t.momentum), avg_momentum)
                        => PortfolioOfOne(t).sentiment <= portfolio.sentiment

\* C14 witness: a None entry among the constituents and a mean momentum
\* strictly inside the normalisation range.
C14_Witness ==
    /\ PortfolioReturned
    /\ Len(ticker_telemetries) = 3 /\ Cardinality(Constituents) = 2
    /\ portfolio.summary.tickerCount = 2
    /\ portfolio.summary.avgStress > 0
    /\ portfolio.sentiment \in 1..9999 /\ portfolio.sentiment # 5000

---------------------------------------------------------------------------
(* Claims about process_all *)

\* The raw files of symbols that are no benchmark and have bars for tf.
PortfolioConstituents(tf) ==
    {i \in 1..Len(raw_files) :
        /\ raw_files[i].symbol \notin {"XAR", "SPY", "QQQ"}
        /\ raw_files[i].data[tf] # <<>>}

\* C15: in process_all the portfolio of each timeframe is folded from the
\* telemetry of the non-benchmark symbols only: its tickerCount is the number
\* of non-benchmark symbols with a non-empty bar list for the timeframe, no
\* portfolio is written for a timeframe without such a symbol, and the
\* manifest's symbols hold no benchmark.
C15_PortfolioExcludesBenchmarks ==
    call = "process_all" =>
        /\ \A tf \in Timeframes :
              IF PortfolioConstituents(tf) = {}
              THEN written.portfolio[tf].status = "none"
              ELSE /\ written.portfolio[tf].status = "ok"
                   /\ written.portfolio[tf].summary.tickerCount
                         = Cardinality(PortfolioConstituents(tf))
        /\ \A i \in 1..Len(written.symbols) :
              written.symbols[i] \notin {"XAR", "SPY", "QQQ"}
        /\ \A i \in 1..Len(raw_files) :
              raw_files[i].symbol \notin {"XAR", "SPY", "QQQ"}
                 => \E k \in 1..Len(written.symbols) :
                       written.symbols[k] = raw_files[i].symbol

\* C15 witness: both benchmarks and both other symbols have daily bars, one
\* timeframe has benchmark bars only.
C15_Witness ==
    /\ call = "process_all"
    /\ Len(raw_files) = 4
    /\ \A i \in 1..4 : raw_files[i].data["1D"] # <<>>
    /\ written.portfolio["1D"].summary.tickerCount = 2
    /\ raw_files[2].data["15m"] # <<>> /\ PortfolioConstituents("15m") = {}
    /\ written.portfolio["15m"].status = "none"

---------------------------------------------------------------------------
(* Claims about compute_activity *)

\* The volumes of the last lookback bars, a missing volume read as 0.
TrailingVolumes(bs) ==
    [i \in 1..ActivityLookback |->
        safe_float(bs[Len(bs) - ActivityLookback + i].v, Zero)]

TrailingAverage(bs) == RDiv(RSum(TrailingVolumes(bs), ActivityLookback), Num(ActivityLookback))

\* The sum of the squared trailing volumes: two lists with the same trailing
\* average have the same standard deviation exactly when these sums are equal.
TrailingSpread(bs) ==
    RSum([i \in 1..ActivityLookback |->
            RMul(TrailingVolumes(bs)[i], TrailingVolumes(bs)[i])], ActivityLookback)

LastVolume(bs) == safe_float(bs[Len(bs)].v, Zero)

\* The bar lists the one under test is compared with.
ActivityRivals ==
    {BuildBars(len, "flat", "absent", vs, NoIndicators) :
        len \in {ActivityLookback, MaxLen}, vs \in VolumeShapes}

\* The activity of the bar list under test is ordered like its last volume
\* against every rival that Same(rival) holds of.
ActivityOrderedAmong(Same(_)) ==
    \A rival \in ActivityRivals :
        Same(rival) =>
            LET other == compute_activity(rival[Len(rival)], rival)
            IN  /\ RLe(LastVolume(rival), LastVolume(bars)) => RLe(other, metric)
                /\ RLe(LastVolume(bars), LastVolume(rival)) => RLe(metric, other)

\* C16 (as claimed): of two bar lists of at least 20 bars with the same
\* trailing 20-bar average volume, the one whose last bar has the larger
\* volume has an activity that is not smaller.
C16_ActivityMonotone ==
    (call = "compute_activity" /\ Len(bars) >= ActivityLookback) =>
        ActivityOrderedAmong(LAMBDA rival : TrailingAverage(rival) = TrailingAverage(bars))

\* C16 (amended): of two bar lists of at least 20 bars with the same trailing
\* 20-bar average volume and the same standard deviation of the trailing
\* volumes, the one whose last bar has the larger volume has an activity that
\* is not smaller.
C16_ActivityMonotoneSameSpread ==
    (call = "compute_activity" /\ Len(bars) >= ActivityLookback) =>
        ActivityOrderedAmong(LAMBDA rival :
            /\ TrailingAverage(rival) = TrailingAverage(bars)
            /\ TrailingSpread(rival) = TrailingSpread(bars))

\* C16 witness: a list whose last volume is above the average, and a rival with
\* the same average and deviation whose last volume is below it and whose
\* activity is strictly smaller.
C16_Witness ==
    /\ call = "compute_activity" /\ Len(bars) >= ActivityLookback
    /\ RLt(TrailingAverage(bars), LastVolume(bars))
    /\ \E rival \in ActivityRivals :
          /\ TrailingAverage(rival) = TrailingAverage(bars)
          /\ TrailingSpread(rival) = TrailingSpread(bars)
          /\ RLt(LastVolume(rival), LastVolume(bars))
          /\ RLt(compute_activity(rival[Len(rival)], rival), metric)

---------------------------------------------------------------------------
(* Claims about compute_relative_performance *)

\* (last close - close at the start of the lookback) / that close, for a list
\* of at least lookback bars whose two closes are present, the first positive.
PlainReturn(bs) ==
    LET start == bs[Len(bs) - RelPerfLookback + 1].c
        end == bs[Len(bs)].c
    IN  RDiv(RSub(end, start), start)

HasPlainReturn(bs) ==
    /\ Len(bs) >= RelPerfLookback
    /\ IsNum(bs[Len(bs) - RelPerfLookback + 1].c) /\ IsNum(bs[Len(bs)].c)
    /\ RLt(Zero, bs[Len(bs) - RelPerfLookback + 1].c)

\* C17: compute_relative_performance returns
\* normalize(symbol return - benchmark return, -0.3, 0.3) * 2 - 1, each return
\* being (last close - close at the start of the lookback) / that close; it
\* returns 0 when either list has fewer than lookback bars and when the two
\* lists are identical, and swapping the two lists negates the result.
C17_RelativePerformance ==
    call = "compute_relative_performance" =>
        /\ (HasPlainReturn(bars) /\ HasPlainReturn(benchmark_bars)) =>
              LET diff == RSub(PlainReturn(bars), PlainReturn(benchmark_bars))
                  norm == RMax(Zero, RMin(One, RDiv(RAdd(diff, Rat(3, 10)), Rat(6, 10))))
              IN  metric = RSub(RMul(norm, Num(2)), One)
        /\ (Len(bars) < RelPerfLookback \/ Len(benchmark_bars) < RelPerfLookback)
              => metric = Zero
        /\ bars = benchmark_bars => metric = Zero
        /\ compute_relative_performance(benchmark_bars, bars) = RNeg(metric)

\* C17 witness: a rising symbol against a flat benchmark, both longer than the
\* lookback: the result is strictly between 0 and 1 and its swap is negative.
C17_Witness ==
    /\ call = "compute_relative_performance"
    /\ HasPlainReturn(bars) /\ HasPlainReturn(benchmark_bars)
    /\ RLt(Zero, PlainReturn(bars)) /\ PlainReturn(benchmark_bars) = Zero
    /\ RLt(Zero, metric) /\ RLt(metric, One)
    /\ RLt(compute_relative_performance(benchmark_bars, bars), Zero)

\* C17 witness of the identical case: the symbol's bars are the benchmark's.
C17_IdenticalReached ==
    /\ call = "compute_relative_performance"
    /\ bars = benchmark_bars /\ HasPlainReturn(bars)
    /\ RLt(Zero, PlainReturn(bars))

---------------------------------------------------------------------------
(* Claims about the utility functions clamp, normalize and z_score *)

\* C18: clamp(x, lo, hi) with lo <= hi returns the midpoint (lo + hi) / 2 when
\* x is missing, and otherwise x itself inside [lo, hi], lo below it and hi
\* above it.
C18_ClampMidpointOrBounded ==
    (call = "clamp" /\ RLe(args[2], args[3])) =>
        IF args[1] = Absent
        THEN metric = RDiv(RAdd(args[2], args[3]), Num(2))
        ELSE /\ RLt(args[1], args[2]) => metric = args[2]
             /\ RLt(args[3], args[1]) => metric = args[3]
             /\ (RLe(args[2], args[1]) /\ RLe(args[1], args[3])) => metric = args[1]

\* C18 witness: a missing value between two distinct bounds gives a midpoint
\* that is neither bound.
C18_Witness ==
    /\ call = "clamp" /\ args[1] = Absent /\ RLt(args[2], args[3])
    /\ RLt(args[2], metric) /\ RLt(metric, args[3])

\* C18, the other case reached: a value above the range is cut to hi.
C18_CutReached ==
    /\ call = "clamp" /\ args[1] # Absent /\ RLt(args[2], args[3])
    /\ RLt(args[3], args[1]) /\ metric = args[3]

\* C19: normalize(x, lo, hi) is 0.5 for every x when hi = lo, and with
\* clamping enabled it lies in [0, 1] for every number x and every lo < hi.
C19_NormalizeRange ==
    call = "normalize" =>
        /\ args[3] = args[2] => metric = Rat(1, 2)
        /\ (args[4] /\ args[1] # Absent /\ RLt(args[2], args[3])) =>
              RLe(Zero, metric) /\ RLe(metric, One)

\* C19 witness: a zero-width range around a value that is not 0.5.
C19_Witness ==
    /\ call = "normalize" /\ args[3] = args[2]
    /\ args[1] # Absent /\ args[1] # Rat(1, 2) /\ args[1] # args[2]
    /\ metric = Rat(1, 2)

\* C19, the other case reached: clamping cuts a value above the range to 1.
C19_ClampedReached ==
    /\ call = "normalize" /\ args[4] /\ args[1] # Absent
    /\ RLt(args[2], args[3]) /\ RLt(args[3], args[1]) /\ metric = One

\* The trailing lookback volumes are all equal: their standard deviation is 0.
FlatWindow(bs) ==
    /\ Len(bs) >= ActivityLookback
    /\ \A i \in 1..ActivityLookback : TrailingVolumes(bs)[i] = TrailingVolumes(bs)[1]

\* C20: z_score(x, mean, 0) is 0 for every number x and every mean, and a
\* trailing volume window of zero standard deviation and non-zero mean gives
\* activity exactly 0.5.
C20_FlatWindowIsHalf ==
    /\ (call = "z_score" /\ args[3] = Zero) => metric = Zero
    /\ (call = "compute_activity" /\ FlatWindow(bars)
            /\ TrailingVolumes(bars)[1] # Zero) => metric = Rat(1, 2)

\* C20 witness: a flat window of non-zero volumes has been scored.
C20_Witness ==
    /\ call = "compute_activity" /\ FlatWindow(bars)
    /\ RLt(Zero, TrailingVolumes(bars)[1])
    /\ metric = Rat(1, 2)

\* C20, the function itself reached: a value away from the mean, deviation 0.
C20_ZeroDeviationReached ==
    /\ call = "z_score" /\ args[3] = Zero
    /\ args[1] # Absent /\ args[1] # args[2] /\ metric = Zero

---------------------------------------------------------------------------
(* Claims about summarize_ticker and the signal metrics *)

SummaryReturned == call = "summarize_ticker"

\* Every close of the rows that is present is >= 0.
ClosesNotNegative == \A i \in 1..Len(rows) : rows[i].close = Absent \/ RLe(Zero, rows[i].close)

\* The seven metrics and the two derived traits of a returned summary.
SummaryMetrics(s) ==
    {s.kernelRespectPct, s.bandCompression, s.signalFollowThrough, s.stopHuntFrequency,
     s.volumeReliability, s.macdPersistence, s.volatilityFactor,
     s.trendAdherence, s.chopSensitivity}

\* Whenever summarize_ticker does return a summary, its metrics and traits are
\* in [0, 1] and the follow-through successes do not exceed the signals.
SummaryInUnitRange ==
    (SummaryReturned /\ summary.status = "ok") =>
        /\ \A m \in SummaryMetrics(summary) : InUnit(m)
        /\ FollowCounts(rows).successes <= FollowCounts(rows).signals

\* C21: for every non-empty row list with close >= 0, summarize_ticker gives
\* seven metrics and two derived traits that all lie in [0, 1], and the
\* follow-through success count does not exceed its signal count.
C21_SummaryInUnitRange ==
    (SummaryReturned /\ Len(rows) > 0 /\ ClosesNotNegative) =>
        /\ summary.status = "ok"
        /\ \A m \in SummaryMetrics(summary) : InUnit(m)
        /\ FollowCounts(rows).successes <= FollowCounts(rows).signals

\* A summary with signals counted, some followed through and some not.
SummaryWithSignalsReached ==
    /\ SummaryReturned /\ summary.status = "ok" /\ ClosesNotNegative
    /\ FollowCounts(rows).signals > FollowCounts(rows).successes
    /\ FollowCounts(rows).successes > 0
    /\ RLt(Zero, summary.chopSensitivity) /\ RLt(summary.trendAdherence, One)

\* The bars on which StopBuy or StopSell fired.
BarsWithStop == {i \in 1..Len(rows) : rows[i].StopBuy = One \/ rows[i].StopSell = One}

\* The fraction of bars with a stop, over the reference 0.2, capped at 1, at
\* the three decimals of the result.
StopFractionScore == Round3(RMin(One, RDiv(Rat(Cardinality(BarsWithStop), Len(rows)), Rat(1, 5))))

\* C22: compute_stop_hunt_frequency returns the fraction of bars that carry a
\* stop signal, divided by the reference frequency 0.2 and capped at 1, and
\* the default 0.3 for fewer than 10 rows.
C22_StopHuntIsBarFraction ==
    call = "compute_stop_hunt_frequency" =>
        IF Len(rows) < MinRows THEN metric = Rat(3, 10)
        ELSE metric = StopFractionScore

\* The same statement holds of every row list in which no bar carries both a
\* StopBuy and a StopSell.
StopHuntOneStopPerBar ==
    (call = "compute_stop_hunt_frequency"
        /\ \A i \in 1..Len(rows) : ~(rows[i].StopBuy = One /\ rows[i].StopSell = One)) =>
        IF Len(rows) < MinRows THEN metric = Rat(3, 10)
        ELSE metric = StopFractionScore

StopHuntBelowCapReached ==
    /\ call = "compute_stop_hunt_frequency" /\ Len(rows) >= MinRows
    /\ BarsWithStop # {} /\ RLt(metric, One) /\ metric = StopFractionScore

---------------------------------------------------------------------------
(* Claims about compute_signal_follow_through, in both scripts *)

Sides == {"Buy", "Sell"}

\* The closes present among the next horizon rows after row i.
LaterCloses(i, horizon) ==
    {rows[j].close : j \in {k \in (i + 1)..Min(i + horizon, Len(rows)) : rows[k].close # Absent}}

\* The hit-rate of the claim: every fired signal <<i, side>> on a bar with a
\* later bar is evaluated; it is a hit when a close within the horizon is up
\* (Buy) or down (Sell) by at least the threshold, relative to the bar's close.
ClaimedHitRate(Fired(_, _), horizon, threshold, default) ==
    LET evaluated == {s \in (1..Len(rows)) \X Sides :
                        Fired(s[1], s[2]) /\ s[1] < Len(rows)}
        hit(s) == /\ rows[s[1]].close # Absent
                  /\ \E c \in LaterCloses(s[1], horizon) :
                        IF s[2] = "Buy"
                        THEN RLe(RMul(rows[s[1]].close, RAdd(One, threshold)), c)
                        ELSE RLe(c, RMul(rows[s[1]].close, RSub(One, threshold)))
    IN  IF evaluated = {} THEN default
        ELSE Round3(Rat(Cardinality({s \in evaluated : hit(s)}), Cardinality(evaluated)))

FiredAsOne(i, side) == rows[i][side] = One

FiredNotZero(i, side) == Truthy(rows[i][side])

\* C23 (as claimed): the result is the hit-rate over every fired signal that
\* has a later bar; with no fired signal it is the variant's default.
C23_HitRateOfEveryFiredSignal ==
    /\ call = "compute_signal_follow_through" =>
          metric = ClaimedHitRate(FiredAsOne, FollowHorizon, Rat(5, 1000), Rat(1, 2))
    /\ call = "updater_compute_signal_follow_through" =>
          Round3(metric) = ClaimedHitRate(FiredNotZero, UpdaterHorizon, Rat(12, 1000), Zero)

\* The signals summarize-market-data.py evaluates: Buy or Sell equal to 1 on a
\* row before the last five, with a close, and a close among the next five.
SummarizerEvaluated ==
    {s \in (1..Len(rows)) \X Sides :
        /\ FiredAsOne(s[1], s[2]) /\ s[1] <= Len(rows) - FollowTail
        /\ rows[s[1]].close # Absent /\ LaterCloses(s[1], FollowHorizon) # {}}

SummarizerHit(s) ==
    \E c \in LaterCloses(s[1], FollowHorizon) :
        IF s[2] = "Buy" THEN RLt(RMul(rows[s[1]].close, Rat(1005, 1000)), c)
        ELSE RLt(c, RMul(rows[s[1]].close, Rat(995, 1000)))

\* The signals telemetry_updater.py evaluates: Buy or Sell not 0 on a row that
\* has a later row and a close that is not 0.
UpdaterEvaluated ==
    {s \in (1..Len(rows)) \X Sides :
        /\ FiredNotZero(s[1], s[2]) /\ s[1] < Len(rows)
        /\ rows[s[1]].close # Absent /\ rows[s[1]].close # Zero}

\* highest later close / close - 1 >= 0.012 for a Buy; close / lowest later
\* close - 1 >= 0.012 for a Sell (a lowest close of 0 under a positive close hits).
UpdaterHit(s) ==
    LET later == LaterCloses(s[1], UpdaterHorizon)
        entry == rows[s[1]].close
    IN  IF s[2] = "Buy"
        THEN \E c \in later : /\ \A x \in later : RLe(x, c)
                              /\ RLe(Rat(1012, 1000), RDiv(c, entry))
        ELSE \E c \in later : /\ \A x \in later : RLe(c, x)
                              /\ IF c = Zero THEN RLt(Zero, entry)
                                 ELSE RLe(Rat(1012, 1000), RDiv(entry, c))

\* C23 (amended): each script returns hits / evaluated signals over the
\* signals it evaluates, with its own horizon, threshold and default; the
\* summarizer leaves out the last five rows and gives 0.5 below 20 rows.
C23_HitRateOfEvaluatedSignals ==
    /\ call = "compute_signal_follow_through" =>
          IF Len(rows) < SignalRows \/ SummarizerEvaluated = {} THEN metric = Rat(1, 2)
          ELSE metric = Round3(Rat(Cardinality({s \in SummarizerEvaluated : SummarizerHit(s)}),
                                   Cardinality(SummarizerEvaluated)))
    /\ call = "updater_compute_signal_follow_through" =>
          IF UpdaterEvaluated = {} THEN metric = Zero
          ELSE metric = Rat(Cardinality({s \in UpdaterEvaluated : UpdaterHit(s)}),
                            Cardinality(UpdaterEvaluated))

\* C23 witness: the summarizer has scored signals, some hit and some missed,
\* while a fired signal in the last five rows, with a later bar, was left out.
C23_Witness ==
    /\ call = "compute_signal_follow_through" /\ Len(rows) >= SignalRows
    /\ RLt(Zero, metric) /\ RLt(metric, One)
    /\ \E s \in (1..Len(rows)) \X Sides :
          /\ FiredAsOne(s[1], s[2]) /\ s[1] < Len(rows)
          /\ s \notin SummarizerEvaluated

\* The updater's rate reached strictly between 0 and 1.
UpdaterPartialRateReached ==
    /\ call = "updater_compute_signal_follow_through"
    /\ RLt(Zero, metric) /\ RLt(metric, One)

---------------------------------------------------------------------------
(* Claims about the glow visual parameter *)

\* 0.5 * |momentum| + 0.5 * activity, of the metrics given to the mapping
EvenGlow == RAdd(RMul(RAbs(args[2]), Rat(1, 2)), RMul(args[4], Rat(1, 2)))

MetricsInRange ==
    /\ RLe(Num(-1), args[2]) /\ RLe(args[2], One)
    /\ RLe(Zero, args[4]) /\ RLe(args[4], One)

\* C24 (as claimed): for momentum in [-1, 1] and activity in [0, 1], glow is
\* 0.5 * |momentum| + 0.5 * activity clamped to [0, 1], in compute_visual_params
\* and in generate_telemetry.
C24_GlowEvenWeights ==
    /\ (call = "compute_visual_params" /\ MetricsInRange) =>
          visual.glow = RMax(Zero, RMin(One, EvenGlow))
    /\ (call = "visual_mapping" /\ MetricsInRange) =>
          telemetry.visual.glow = Round(RMax(Zero, RMin(One, EvenGlow)), 4)

\* C24 (amended): compute_visual_params gives 0.5 * |momentum| + 0.5 * activity
\* clamped to [0.2, 1]; generate_telemetry gives
\* min(1, 0.7 * activity + 0.3 * |momentum|), at 4 decimals.
C24_GlowPerVariant ==
    /\ (call = "compute_visual_params" /\ MetricsInRange) =>
          /\ RLt(EvenGlow, Rat(1, 5)) => visual.glow = Rat(1, 5)
          /\ RLe(Rat(1, 5), EvenGlow) => visual.glow = EvenGlow
    /\ (call = "visual_mapping" /\ MetricsInRange) =>
          \E g \in {RAdd(RMul(args[4], Rat(7, 10)), RMul(RAbs(args[2]), Rat(3, 10)))} :
              telemetry.visual.glow = Round(IF RLt(One, g) THEN One ELSE g, 4)

\* C24 witness: a weighted sum below 0.2, but not 0, is lifted to glow 0.2.
C24_Witness ==
    /\ call = "compute_visual_params" /\ MetricsInRange
    /\ RLt(Zero, EvenGlow) /\ RLt(EvenGlow, Rat(1, 5))
    /\ visual.glow = Rat(1, 5)

\* generate_telemetry's glow reached where the two weightings differ.
GlowWeightsDifferReached ==
    /\ call = "visual_mapping" /\ MetricsInRange /\ telemetry.status = "ok"
    /\ telemetry.visual.glow # Round(EvenGlow, 4)

---------------------------------------------------------------------------
(* Claims about None entries given to generate_portfolio_telemetry *)

\* The returned record counts the entries that are not None and averages
\* over exactly those.
SummaryOverConstituents ==
    /\ portfolio.summary.tickerCount = Cardinality(Constituents)
    /\ portfolio.summary.avgMomentum
          = Round(ConstituentMean(LAMBDA t : Val(t.momentum)), 4)
    /\ portfolio.summary.avgVolatility
          = Round(ConstituentMean(LAMBDA t : Val(t.volatility)), 4)
    /\ portfolio.summary.avgStress
          = Round(ConstituentMean(LAMBDA t : Val(t.risk.stress)), 4)
    /\ portfolio.healthScore = Round(ConstituentMean(HealthTerm), 4)

\* C26: for every list with at least one entry that is not None, wherever the
\* None entries stand, generate_portfolio_telemetry returns a summary and does
\* not raise; its tickerCount is the number of entries that are not None and
\* its averages are taken over exactly those entries.
C26_ToleratesNoneAnywhere ==
    (call = "generate_portfolio_telemetry" /\ Constituents # {}) =>
        /\ portfolio.status = "ok"
        /\ SummaryOverConstituents

\* The same statement holds of every list whose first entry is not None.
ToleratesNoneAfterFirst ==
    (call = "generate_portfolio_telemetry" /\ Constituents # {} /\ 1 \in Constituents) =>
        /\ portfolio.status = "ok"
        /\ SummaryOverConstituents

NoneAfterFirstReached ==
    /\ call = "generate_portfolio_telemetry" /\ portfolio.status = "ok"
    /\ Len(ticker_telemetries) = 3 /\ Constituents = {1, 3}

---------------------------------------------------------------------------
(* Claims about compute_macd_persistence *)

\* The signs of the rows that have a Histogram value, in row order, and the
\* streaks recorded when the scan of the rows has ended.
Signs == HistogramSigns(rows)

Streaks == MacdStreaks(rows)

\* The position, among the rows with a Histogram value, where streak k starts.
StreakStart(k) == 1 + ISum(Streaks, k - 1)

SignChanges == Cardinality({i \in 1..(Len(Signs) - 1) : Signs[i] # Signs[i + 1]})

\* C27: after compute_macd_persistence has scanned at least 20 rows, the
\* recorded streaks partition the rows that have a Histogram value: each
\* length is >= 1, the lengths sum to the number of such rows, each streak
\* holds one sign and the next streak the opposite one, and when some row has
\* a Histogram value there are 1 + (number of sign changes) streaks. The
\* result is min(1, average streak length / 10) at 3 decimals, or 0.5 when no
\* row has a Histogram value.
C27_StreaksPartitionRows ==
    (call = "compute_macd_persistence" /\ Len(rows) >= SignalRows) =>
        /\ \A k \in 1..Len(Streaks) : Streaks[k] >= 1
        /\ ISum(Streaks, Len(Streaks)) = Len(Signs)
        /\ \A k \in 1..Len(Streaks) :
              \A i \in StreakStart(k)..(StreakStart(k) + Streaks[k] - 1) :
                  Signs[i] = Signs[StreakStart(k)]
        /\ \A k \in 1..(Len(Streaks) - 1) :
              Signs[StreakStart(k + 1)] = -Signs[StreakStart(k)]
        /\ Len(Signs) > 0 => Len(Streaks) = 1 + SignChanges
        /\ IF Len(Signs) = 0 THEN metric = Rat(1, 2)
           ELSE metric = Round3(RMin(One, RDiv(Rat(Len(Signs), Len(Streaks)), Num(10))))

\* C27 witness: rows with and without a Histogram value, several streaks of
\* different lengths, and a result below 1.
C27_Witness ==
    /\ call = "compute_macd_persistence" /\ Len(rows) >= SignalRows
    /\ Len(Signs) > 0 /\ Len(Signs) < Len(rows)
    /\ Len(Streaks) >= 3
    /\ \E j, k \in 1..Len(Streaks) : Streaks[j] # Streaks[k]
    /\ RLt(metric, One)

---------------------------------------------------------------------------
(* Claims about the run of telemetry_updater main *)

\* The git commands issued so far, by name and in order.
GitIssued == [i \in 1..Len(updater.commands) |-> updater.commands[i][1]]

\* The files, in order, whose summarization does not raise.
Summarizable ==
    SelectSeq([i \in 1..Len(updater.csvs) |-> i], LAMBDA i : updater.csvs[i] = "ok")

LoopEnded == updater.status \in {"exit", "add", "commit", "push", "done"} /\ updater.pos > 0

\* C25: in every run of main, git commands are issued only after a summary
\* file was written and only when --commit or --push was given, in the order
\* add, commit and then, only with --push, push; --push alone issues add and
\* commit too. A CSV whose summarization raises is skipped and the files after
\* it are still summarized; when no summary was written the run aborts with
\* no git command issued.
C25_GitOnlyAfterWrittenInOrder ==
    unit = "updater" =>
        /\ GitIssued \in {<<>>, <<"add">>, <<"add", "commit">>, <<"add", "commit", "push">>}
        /\ GitIssued # <<>> =>
              /\ Len(updater.written) > 0
              /\ updater.argv.commit \/ updater.argv.push
              /\ LoopEnded
        /\ <<"add", "commit", "push">> = GitIssued => updater.argv.push
        /\ LoopEnded => updater.written = Summarizable
        /\ (LoopEnded /\ Len(updater.written) = 0) =>
              updater.status = "exit" /\ GitIssued = <<>>
        /\ updater.status = "exit" => GitIssued = <<>>
        /\ updater.status = "done" =>
              GitIssued = IF updater.argv.push THEN <<"add", "commit", "push">>
                          ELSE IF updater.argv.commit THEN <<"add", "commit">>
                          ELSE <<>>

\* C25 witness: a run given --push without --commit that skipped a raising CSV,
\* wrote the summary of a later one, and issued add, commit and push although
\* a git command failed.
C25_Witness ==
    /\ unit = "updater" /\ updater.status = "done"
    /\ updater.argv.push /\ ~updater.argv.commit
    /\ \E i \in 1..Len(updater.csvs) :
          /\ updater.csvs[i] = "raises"
          /\ \E j \in (i + 1)..Len(updater.csvs) :
                \E k \in 1..Len(updater.written) : updater.written[k] = j
    /\ GitIssued = <<"add", "commit", "push">>
    /\ \E i \in 1..Len(updater.commands) : updater.commands[i][2] # 0

\* A run that aborted because every CSV raised.
AbortedRunReached ==
    /\ unit = "updater" /\ updater.status = "exit"
    /\ Len(updater.csvs) > 0 /\ updater.argv.push /\ GitIssued = <<>>
=============================================================================
